---- MODULE Spec2Model ----
(***************************************************************************)
(* The ingestion pipeline of monitor-ingest: HTTP ingest handlers          *)
(* (routes.IngestEventsHandler / parseAndEnqueue) feeding the bounded      *)
(* queue, the single batcher consuming it, and db.WriteBatch handing       *)
(* batches to ClickHouse.  services/queue.go, services/batcher.go and      *)
(* main.go are not among the source files; their operations are modelled   *)
(* from spec.md sections 3, 4.3, 4.4, 4.8 and 5.                           *)
(***************************************************************************)
EXTENDS Integers, Sequences, FiniteSets, TLC

\* ---------------------------------------------------------------- bounds
\* QUEUE_SIZE (default 100000) and BATCH_SIZE (default 1000), scaled down.
QueueCap ==
    2
BatchSize ==
    2
\* Events parsed over the whole run, and lines scanned in one request body.
MaxEvents ==
    4
MaxLines ==
    1

\* Concurrent ingest requests in flight (one goroutine per request).
Handlers == {"h1", "h2"}

VARIABLES
    \* services.Queue
    queue,        \* the buffered channel: event ids, oldest first
    enqueued,     \* counter of successful inserts
    dropped,      \* counter of events rejected because the queue was full
    closed,       \* close() was called
    \* services.Batcher
    buffer,       \* events collected and not yet flushed
    batch,        \* the local slice a flush in progress passed to WriteBatch
    bpc,          \* "run" | "flush" | "write" | "done"
    bret,         \* where the batcher continues after the flush: "run" | "done"
    tickPending,  \* the ticker fired and the batcher has not received it yet
    \* the store, as db.WriteBatch drives it
    inserts,      \* batches for which WriteBatch started an INSERT, in order
    sent,         \* batches on which batch.Send() was called, in order
    \* ingest handlers (routes.IngestEventsHandler -> parseAndEnqueue)
    hpc,          \* "idle" | "scan" | "sent" | "full"
    lineNum,      \* lineNum of parseAndEnqueue
    count,        \* count of parseAndEnqueue
    resp,         \* ingest response written by the step just taken, if any
    \* routes.HealthHandler
    health,       \* /health body written by the step just taken, if any
    \* lifecycle (main)
    mpc,          \* "serving" | "stopping" | "draining" | "exit"
    \* bookkeeping of the run
    nextId,       \* id given to the next parsed event
    inserted,     \* ids the queue accepted, in insertion order
    validated,    \* ids of the events for which Validate returned nil
    \* package db (clickhouse.go)
    Conn,         \* the global connection: 0 is nil, k the one opened at attempt k
    Database,     \* the global database name
    cpc,          \* Connect: "idle" | "open" | "ping" | "sleep" | "ok" | "exhausted"
    attempt,      \* Connect's loop variable
    conn,         \* Connect's local conn
    err,          \* Connect's local err: "nil" | "open" | "ping"
    failures,     \* the error of each failed attempt, in order
    slept,        \* the seconds of each time.Sleep, in order
    ret,          \* what Connect returned: <<"none">> while it has not
    closeCalls,   \* calls of db.Close so far
    closes,       \* calls of Conn.Close() on the driver connection so far
    closeRet,     \* what the last db.Close returned: "none" before the first
    \* one NDJSON line taken through json.Unmarshal and Event.Validate
    line,         \* the line: the JSON object's members, or not JSON at all
    verr,         \* what the handler got for it: "none" before it is parsed
    \* one request body taken through IngestEventsHandler / parseAndEnqueue
    body,         \* the tokens scanner.Scan() yields for it, in order
    tooLarge,     \* the body is longer than MaxRequestBodySize
    pos,          \* lineNum of parseAndEnqueue
    accepted,     \* count of parseAndEnqueue
    calls,        \* the line numbers whose event was passed to Queue.Enqueue
    code,         \* HTTP status written: 0 while the handler is running
    errLine,      \* the line number in the error message: 0 when it has none
    \* one QueryParams taken through services.applyFilters
    params,       \* the QueryParams
    where,        \* the WHERE parts of the builder, in the order they were added
    built,        \* applyFilters has returned
    \* one query-string key taken through routes.parseFilterKey
    fkey,         \* the key, character by character
    fres,         \* what parseFilterKey returned: <<>> before it is called
    \* one HTTP request taken through a query handler of package routes
    req,          \* the request: path, {label} of the route, r.URL.Query()
    parsed,       \* the QueryParams parseQueryParams returned
    issued,       \* the statements passed to db.Conn, in order
    svcErr,       \* the error the service returned: <<>> is nil
    httpStatus,   \* HTTP status written: 0 while the handler is running
    links,        \* the pagination written: count, next and previous
    \* one analytics request (time series, compare) taken through its service
    areq,         \* the request: operation and the fields of its body
    aout,         \* the outcome: status, statements, store rows and data
    \* one call of db.WriteBatch, as the driver sees it
    wevents,      \* the events passed
    wout          \* the calls made on the driver, in order, and the return

vars == <<queue, enqueued, dropped, closed, buffer, batch, bpc, bret,
          tickPending, inserts, sent, hpc, lineNum, count, resp, health,
          mpc, nextId, inserted, validated, Conn, Database, cpc, attempt, conn, err,
          failures, slept, ret, closeCalls, closes, closeRet, line, verr,
          body, tooLarge, pos, accepted, calls, code, errLine,
          params, where, built, fkey, fres,
          req, parsed, issued, svcErr, httpStatus, links, areq, aout,
          wevents, wout>>

queueVars   == <<queue, enqueued, dropped, closed>>
batcherVars == <<buffer, batch, bpc, bret, tickPending>>
storeVars   == <<inserts, sent>>
handlerVars == <<hpc, lineNum, count>>
pipelineVars == <<queueVars, batcherVars, storeVars, handlerVars, resp,
                  health, mpc, nextId, inserted, validated>>
dbVars      == <<Conn, Database, cpc, attempt, conn, err, failures, slept,
                 ret, closeCalls, closes, closeRet>>
lineVars    == <<line, verr>>
bodyVars    == <<body, tooLarge, pos, accepted, calls, code, errLine>>
\* What the steps of the pipeline, of package db, on one line, on one body
\* and on one query leave alone.
queryVars   == <<params, where, built>>
keyVars     == <<fkey, fres>>
requestVars == <<req, parsed, issued, svcErr, httpStatus, links>>
analyticsVars == <<areq, aout>>
writeVars   == <<wevents, wout>>
routeVars   == <<keyVars, requestVars, analyticsVars, writeVars>>
otherVars   == <<dbVars, lineVars, bodyVars, queryVars, routeVars>>
notDbVars   == <<pipelineVars, lineVars, bodyVars, queryVars, routeVars>>
notLineVars == <<pipelineVars, dbVars, bodyVars, queryVars, routeVars>>
notBodyVars == <<pipelineVars, dbVars, lineVars, queryVars, routeVars>>
notQueryVars == <<pipelineVars, dbVars, lineVars, bodyVars, routeVars>>
notKeyVars  == <<pipelineVars, dbVars, lineVars, bodyVars, queryVars,
                 requestVars, analyticsVars, writeVars>>
notRequestVars == <<pipelineVars, dbVars, lineVars, bodyVars, queryVars,
                    keyVars, analyticsVars, writeVars>>
notAnalyticsVars == <<pipelineVars, dbVars, lineVars, bodyVars, queryVars,
                      keyVars, requestVars, writeVars>>
notWriteVars == <<pipelineVars, dbVars, lineVars, bodyVars, queryVars,
                  keyVars, requestVars, analyticsVars>>

\* ------------------------------------------------------------ helpers
Range(s) == {s[i] : i \in 1..Len(s)}

RECURSIVE Flatten(_)
Flatten(ss) == IF ss = <<>> THEN <<>> ELSE Head(ss) \o Flatten(Tail(ss))

RECURSIVE SumLen(_)
SumLen(ss) == IF ss = <<>> THEN 0 ELSE Len(Head(ss)) + SumLen(Tail(ss))

\* resp and health are outputs: each holds what the step just taken wrote to
\* an HTTP client, and nothing once the next step has been taken.
NoResp == <<>>
NoHealth == <<>>
NoOutput == resp' = NoResp /\ health' = NoHealth

\* The pipeline as main has constructed it.
PipelineInit ==
    /\ queue = <<>> /\ enqueued = 0 /\ dropped = 0 /\ closed = FALSE
    /\ buffer = <<>> /\ batch = <<>> /\ bpc = "run" /\ bret = "run"
    /\ tickPending = FALSE
    /\ inserts = <<>> /\ sent = <<>>
    /\ hpc = [h \in Handlers |-> "idle"]
    /\ lineNum = [h \in Handlers |-> 0]
    /\ count = [h \in Handlers |-> 0]
    /\ resp = NoResp
    /\ health = NoHealth
    /\ mpc = "serving"
    /\ nextId = 1
    /\ inserted = <<>>
    /\ validated = {}

\* Package db before main calls Connect: Conn is nil.
DbInit ==
    /\ Conn = 0 /\ Database = ""
    /\ cpc = "idle" /\ attempt = 0 /\ conn = 0 /\ err = "nil"
    /\ failures = <<>> /\ slept = <<>> /\ ret = <<"none">>
    /\ closeCalls = 0 /\ closes = 0 /\ closeRet = "none"

\* Package db when main starts the pipeline: Connect has returned nil (here at
\* its first attempt) and Close has not been called.
DbConnected ==
    /\ Conn = 1 /\ Database = "db"
    /\ cpc = "ok" /\ attempt = 1 /\ conn = 1 /\ err = "nil"
    /\ failures = <<>> /\ slept = <<>> /\ ret = <<"nil">>
    /\ closeCalls = 0 /\ closes = 0 /\ closeRet = "none"

\* No line is being examined apart from those the handlers scan.
NoLine ==
    /\ line = <<>>
    /\ verr = "none"

\* No query is being compiled.
NoQuery ==
    /\ params = <<>>
    /\ where = <<>>
    /\ built = FALSE

\* No request body is being examined apart from those the handlers scan.
NoBody ==
    /\ body = <<>> /\ tooLarge = FALSE
    /\ pos = 0 /\ accepted = 0 /\ calls = <<>>
    /\ code = 200 /\ errLine = 0

\* No query-string key is being parsed.
NoKey ==
    /\ fkey = <<>>
    /\ fres = <<>>

\* time.Time as days since 0001-01-01 and seconds of the day, UTC; the zero
\* Time is January 1, year 1, 00:00:00 UTC.
ZeroTime ==
    <<0, 0>>

\* services.QueryParams{Filters: []services.Filter{}}
NoParams ==
    [Filters |-> <<>>, From |-> ZeroTime, To |-> ZeroTime, Limit |-> 0,
     Offset |-> 0]

\* No pagination link: next and previous are "".
NoLink ==
    <<"">>

NoLinks ==
    [count |-> 0, next |-> NoLink, previous |-> NoLink]

\* No query request is being served.
NoRequest ==
    /\ req = [path |-> "", label |-> "", query |-> <<>>]
    /\ parsed = NoParams
    /\ issued = <<>>
    /\ svcErr = <<>>
    /\ httpStatus = 200
    /\ links = NoLinks

\* No analytics request is being served.
NoOutcome ==
    [status |-> 0, issued |-> <<>>, rows |-> <<>>, data |-> <<>>]

NoAnalytics ==
    /\ areq = [op |-> ""]
    /\ aout = NoOutcome

\* No call of WriteBatch is followed call by call.
NotCalled ==
    [calls |-> <<>>, ret |-> "none"]

NoWrite ==
    /\ wevents = <<>>
    /\ wout = NotCalled

Init ==
    /\ PipelineInit
    /\ DbConnected
    /\ NoLine
    /\ NoBody
    /\ NoQuery
    /\ NoKey
    /\ NoRequest
    /\ NoAnalytics
    /\ NoWrite


\* ------------------------------------------------ structs.Event (event.go)
\* Strings that Validate inspects character by character are sequences of
\* one-character strings.  Samples for a *_id member:
UuidLower ==
    <<"0", "a", "1", "b", "2", "c", "3", "d", "-", "4", "e", "5", "f", "-",
      "6", "a", "7", "b", "-", "8", "c", "9", "d", "-", "0", "e", "1", "f",
      "2", "a", "3", "b", "4", "c", "5", "d">>
UuidUpper ==
    <<"0", "A", "1", "B", "2", "C", "3", "D", "-", "4", "E", "5", "F", "-",
      "6", "A", "7", "B", "-", "8", "C", "9", "D", "-", "0", "E", "1", "F",
      "2", "A", "3", "B", "4", "C", "5", "D">>
\* 32 hexadecimal digits, no hyphens.
UuidNoHyphens ==
    <<"0", "a", "1", "b", "2", "c", "3", "d", "4", "e", "5", "f", "6", "a",
      "7", "b", "8", "c", "9", "d", "0", "e", "1", "f", "2", "a", "3", "b",
      "4", "c", "5", "d">>
\* A g as last character.
UuidBadDigit ==
    <<"0", "a", "1", "b", "2", "c", "3", "d", "-", "4", "e", "5", "f", "-",
      "6", "a", "7", "b", "-", "8", "c", "9", "d", "-", "0", "e", "1", "f",
      "2", "a", "3", "b", "4", "c", "5", "g">>
\* One digit too many at the end.
UuidTooLong ==
    <<"0", "a", "1", "b", "2", "c", "3", "d", "-", "4", "e", "5", "f", "-",
      "6", "a", "7", "b", "-", "8", "c", "9", "d", "-", "0", "e", "1", "f",
      "2", "a", "3", "b", "4", "c", "5", "d", "0">>
\* The first hyphen one place to the right.
UuidShifted ==
    <<"0", "a", "1", "b", "2", "c", "3", "d", "4", "-", "e", "5", "f", "-",
      "6", "a", "7", "b", "-", "8", "c", "9", "d", "-", "0", "e", "1", "f",
      "2", "a", "3", "b", "4", "c", "5", "d">>
NotUuid ==
    <<"j", "o", "b", "_", "x">>

IdSamples ==
    {<<>>, UuidLower, UuidUpper, UuidNoHyphens, UuidBadDigit, UuidTooLong,
     UuidShifted, NotUuid}

HexDigits ==
    {"0", "1", "2", "3", "4", "5", "6", "7", "8", "9",
     "a", "b", "c", "d", "e", "f", "A", "B", "C", "D", "E", "F"}

\* uuidRegex.MatchString(s):
\* ^[0-9a-fA-F]{8}-[0-9a-fA-F]{4}-[0-9a-fA-F]{4}-[0-9a-fA-F]{4}-[0-9a-fA-F]{12}$
MatchUuid(s) ==
    /\ Len(s) = 36
    /\ \A i \in 1..36 :
           IF i \in {9, 14, 19, 24} THEN s[i] = "-" ELSE s[i] \in HexDigits

\* A line of the body: json says whether it is a JSON object at all; the
\* members are those Validate is concerned with (env, level and data are
\* never inspected).  timestamp 0 stands for an absent or zero timestamp.
Lines ==
    [json : BOOLEAN, timestamp : {0, 1}, service : {"", "users"},
     name : {"", "user.created"}, job_id : IdSamples, request_id : IdSamples,
     trace_id : IdSamples, user_id : IdSamples]

\* json.Unmarshal(line, &event): the members that are fields of Event are
\* stored; a member that is no field of Event (user_id) is ignored.
Unmarshal(l) ==
    IF l.json
       THEN [err |-> "nil",
             event |-> [Timestamp |-> l.timestamp, Service |-> l.service,
                        JobID |-> l.job_id, RequestID |-> l.request_id,
                        TraceID |-> l.trace_id, Name |-> l.name]]
       ELSE [err |-> "invalid JSON",
             event |-> [Timestamp |-> 0, Service |-> "", JobID |-> <<>>,
                        RequestID |-> <<>>, TraceID |-> <<>>, Name |-> ""]]

\* Event.Validate
Validate(e) ==
    IF e.Timestamp = 0 THEN "timestamp is required"
    ELSE IF e.Service = "" THEN "service is required"
    ELSE IF e.Name = "" THEN "name is required"
    ELSE IF e.JobID # <<>> /\ ~MatchUuid(e.JobID)
         THEN "job_id must be a valid UUID"
    ELSE IF e.RequestID # <<>> /\ ~MatchUuid(e.RequestID)
         THEN "request_id must be a valid UUID"
    ELSE IF e.TraceID # <<>> /\ ~MatchUuid(e.TraceID)
         THEN "trace_id must be a valid UUID"
    ELSE "nil"

\* What parseAndEnqueue gets for a line: the Unmarshal error, else what
\* Validate returns.
LineError(l) ==
    IF Unmarshal(l).err # "nil"
       THEN "invalid JSON"
       ELSE Validate(Unmarshal(l).event)

\* The lines the request bodies of the pipeline are made of.
GoodLine ==
    [json |-> TRUE, timestamp |-> 1, service |-> "users",
     name |-> "user.created", job_id |-> UuidLower, request_id |-> <<>>,
     trace_id |-> UuidUpper, user_id |-> <<>>]

BodyLines ==
    {GoodLine,
     [GoodLine EXCEPT !.json = FALSE],
     [GoodLine EXCEPT !.timestamp = 0],
     [GoodLine EXCEPT !.job_id = NotUuid],
     [GoodLine EXCEPT !.user_id = NotUuid]}

\* parseAndEnqueue's handling of one line, up to the decision to enqueue it.
ParseLine ==
    /\ verr = "none"
    /\ verr' = LineError(line)
    /\ line' = line
    /\ UNCHANGED notLineVars

\* ---------------------------- one body through IngestEventsHandler
\* Tokens scanner.Scan() yields from one body, at most.
MaxBody ==
    4

\* A token is an empty line or one of the lines above.
TokenKinds ==
    {"empty", "good", "not json", "no timestamp", "bad job_id"}

LineOf(kind) ==
    CASE kind = "good" -> GoodLine
      [] kind = "not json" -> [GoodLine EXCEPT !.json = FALSE]
      [] kind = "no timestamp" -> [GoodLine EXCEPT !.timestamp = 0]
      [] kind = "bad job_id" -> [GoodLine EXCEPT !.job_id = NotUuid]

\* Faulty variant: empty lines are not counted.
LineNumberNonEmpty(b, p) ==
    Cardinality({i \in 1..p : b[i] # "empty"})

\* lineNum++ for every token scanned, empty or not.
LineNumber(b, p) ==
    p

\* for scanner.Scan() { ... }: one turn of the loop.  An empty line is
\* skipped; a line that fails json.Unmarshal or Validate ends the request with
\* "line N: ..." and 400; any other is passed to Queue.Enqueue and counted.
BodyScan ==
    /\ code = 0
    /\ pos < Len(body)
    /\ pos' = pos + 1
    /\ IF body[pos + 1] = "empty"
          THEN UNCHANGED <<accepted, calls, code, errLine>>
          ELSE IF LineError(LineOf(body[pos + 1])) # "nil"
                  THEN /\ code' = 400
                       /\ errLine' = LineNumber(body, pos + 1)
                       /\ UNCHANGED <<accepted, calls>>
                  ELSE /\ calls' = Append(calls, LineNumber(body, pos + 1))
                       /\ accepted' = accepted + 1
                       /\ UNCHANGED <<code, errLine>>
    /\ UNCHANGED <<body, tooLarge>>
    /\ UNCHANGED notBodyVars

\* scanner.Scan() returns false.  When the read behind it failed because
\* http.MaxBytesReader cut the body at MaxRequestBodySize, scanner.Err() is
\* that error: parseAndEnqueue returns "error reading body: ..." and the
\* handler answers http.StatusBadRequest; otherwise 200 with the count.
BodyEnd ==
    /\ code = 0
    /\ pos = Len(body)
    /\ code' = IF tooLarge THEN 400 ELSE 200
    /\ UNCHANGED <<body, tooLarge, pos, accepted, calls, errLine>>
    /\ UNCHANGED notBodyVars

\* --------------------------------------- services.applyFilters (query.go)
\* Filters in one QueryParams, at most.
MaxFilters ==
    2

\* const ( OpEq ... OpIn ); "" is the absent operator, "regex" one that is
\* none of them.
Operators ==
    {"eq", "neq", "lt", "gt", "lte", "gte", "contains", "startswith",
     "endswith", "in", "", "regex"}

\* var validColumns
validColumns ==
    {"service", "env", "job_id", "request_id", "trace_id", "user_id", "name",
     "level"}

\* Fields of the filters tried: the valid columns, other columns of the
\* table, and names that are no column.
ColumnFields ==
    validColumns \cup {"timestamp", "data", "id", "name; DROP TABLE events"}

DataFields ==
    {"latency_ms", "user.id"}

\* The filters tried: an equality on every field, every operator on one
\* valid column, on one name that is no valid column and on one data key, and
\* "in" with a []string where the others have a string.
ColumnFilter(f, op, v) ==
    [Field |-> f, Operator |-> op, Value |-> v, IsData |-> FALSE]

DataFilter(f, op, v) ==
    [Field |-> f, Operator |-> op, Value |-> v, IsData |-> TRUE]

Filters ==
    {ColumnFilter(f, "eq", <<"s", "v">>) : f \in ColumnFields}
    \cup {ColumnFilter(f, op, <<"s", "v">>) :
             f \in {"service", "id"}, op \in Operators}
    \cup {ColumnFilter(f, "in", <<"list", <<"a", "b">>>>) :
             f \in {"service", "id"}}
    \cup {DataFilter("latency_ms", op, <<"s", "v">>) : op \in Operators}
    \cup {DataFilter(f, "eq", <<"s", "v">>) : f \in DataFields}

\* A WHERE part as squirrel holds it: a condition on a column (sq.Eq, sq.Lt,
\* sq.Like ... {column: value}), or an expression with placeholders and its
\* arguments.
ColumnPart(kind, column, value) ==
    [part |-> "column", cond |-> kind, column |-> column, args |-> <<value>>]

\* Faulty variant: the value is written into the comparison, quoted.
ExprPartInline(expr, value) ==
    [part |-> "expr",
     cond |-> <<expr[2][1], expr[2][2],
                IF expr[2][3] = "LIKE" THEN "LIKE"
                ELSE expr[2][3] \o " '" \o value[2] \o "' OR '' "
                        \o expr[2][3]>>,
     column |-> expr[1], args |-> <<value>>]

ExprPart(expr, value) ==
    [part |-> "expr", cond |-> expr[2], column |-> expr[1], args |-> <<value>>]

\* fmt.Sprintf("%%%v%%", v), fmt.Sprintf("%v%%", v), fmt.Sprintf("%%%v", v)
LikePattern(op, v) ==
    CASE op = "contains" -> <<"%", v, "%">>
      [] op = "startswith" -> <<v, "%">>
      [] op = "endswith" -> <<"%", v>>

\* Faulty variant: every field is taken for a column.
IsValidColumnAny(field) ==
    TRUE

\* validColumns[f.Field]
IsValidColumn(field) ==
    field \in validColumns

\* applyColumnFilter
applyColumnFilter(builder, f) ==
    IF ~IsValidColumn(f.Field) THEN builder
    ELSE CASE f.Operator \in {"eq", ""} ->
                Append(builder, ColumnPart("Eq", f.Field, f.Value))
           [] f.Operator = "neq" ->
                Append(builder, ColumnPart("NotEq", f.Field, f.Value))
           [] f.Operator = "lt" ->
                Append(builder, ColumnPart("Lt", f.Field, f.Value))
           [] f.Operator = "gt" ->
                Append(builder, ColumnPart("Gt", f.Field, f.Value))
           [] f.Operator = "lte" ->
                Append(builder, ColumnPart("LtOrEq", f.Field, f.Value))
           [] f.Operator = "gte" ->
                Append(builder, ColumnPart("GtOrEq", f.Field, f.Value))
           [] f.Operator \in {"contains", "startswith", "endswith"} ->
                Append(builder,
                       ColumnPart("Like", f.Field,
                                  <<"s", LikePattern(f.Operator, f.Value)>>))
           [] f.Operator = "in" ->
                IF f.Value[1] = "list"
                   THEN Append(builder, ColumnPart("Eq", f.Field, f.Value))
                   ELSE builder
           [] OTHER -> builder

\* Faulty variant: operator in is compiled as the other comparisons are.
applyDataFilterIn(builder, f) ==
    LET extract(cmp) == <<"data", <<"JSONExtractString", f.Field, cmp>>>>
    IN  CASE f.Operator \in {"eq", ""} ->
                Append(builder, ExprPart(extract("="), f.Value))
          [] f.Operator = "neq" ->
                Append(builder, ExprPart(extract("!="), f.Value))
          [] f.Operator = "lt" ->
                Append(builder, ExprPart(extract("<"), f.Value))
          [] f.Operator = "gt" ->
                Append(builder, ExprPart(extract(">"), f.Value))
          [] f.Operator = "lte" ->
                Append(builder, ExprPart(extract("<="), f.Value))
          [] f.Operator = "gte" ->
                Append(builder, ExprPart(extract(">="), f.Value))
          [] f.Operator \in {"contains", "startswith", "endswith"} ->
                Append(builder,
                       ExprPart(extract("LIKE"),
                                <<"s", LikePattern(f.Operator, f.Value)>>))
          [] f.Operator = "in" ->
                Append(builder, ExprPart(extract("IN"), f.Value))
          [] OTHER -> builder

\* applyDataFilter: the expression is JSONExtractString(data, '<Field>').
applyDataFilter(builder, f) ==
    LET extract(cmp) == <<"data", <<"JSONExtractString", f.Field, cmp>>>>
    IN  CASE f.Operator \in {"eq", ""} ->
                Append(builder, ExprPart(extract("="), f.Value))
          [] f.Operator = "neq" ->
                Append(builder, ExprPart(extract("!="), f.Value))
          [] f.Operator = "lt" ->
                Append(builder, ExprPart(extract("<"), f.Value))
          [] f.Operator = "gt" ->
                Append(builder, ExprPart(extract(">"), f.Value))
          [] f.Operator = "lte" ->
                Append(builder, ExprPart(extract("<="), f.Value))
          [] f.Operator = "gte" ->
                Append(builder, ExprPart(extract(">="), f.Value))
          [] f.Operator \in {"contains", "startswith", "endswith"} ->
                Append(builder,
                       ExprPart(extract("LIKE"),
                                <<"s", LikePattern(f.Operator, f.Value)>>))
          [] OTHER -> builder

\* for _, f := range params.Filters { ... }
RECURSIVE applyEach(_, _)
applyEach(builder, fs) ==
    IF fs = <<>> THEN builder
    ELSE applyEach(IF Head(fs).IsData
                      THEN applyDataFilter(builder, Head(fs))
                      ELSE applyColumnFilter(builder, Head(fs)),
                   Tail(fs))

\* time.Time.IsZero
IsZero(t) ==
    t = ZeroTime

\* applyFilters: the filters in order, then the bounds on timestamp.
applyFilters(builder, p) ==
    LET filtered == applyEach(builder, p.Filters)
        lower == IF ~IsZero(p.From)
                    THEN Append(filtered,
                                ColumnPart("GtOrEq", "timestamp", <<"t", p.From>>))
                    ELSE filtered
    IN  IF ~IsZero(p.To)
           THEN Append(lower, ColumnPart("LtOrEq", "timestamp", <<"t", p.To>>))
           ELSE lower

\* QueryEvents builds its count query: applyFilters on a builder with no
\* WHERE part.
BuildQuery ==
    /\ ~built
    /\ where' = applyFilters(<<>>, params)
    /\ built' = TRUE
    /\ params' = params
    /\ UNCHANGED notQueryVars

\* ------------------------------------- routes.parseFilterKey (responder.go)
\* Query-string keys and values are sequences of one-character strings.
\* strings.HasPrefix
HasPrefix(s, prefix) ==
    Len(s) >= Len(prefix) /\ SubSeq(s, 1, Len(prefix)) = prefix

\* strings.TrimPrefix
TrimPrefix(s, prefix) ==
    IF HasPrefix(s, prefix) THEN SubSeq(s, Len(prefix) + 1, Len(s)) ELSE s

\* strings.Index: the position of the first instance of sep in s, 0 when
\* there is none.
Index(s, sep) ==
    LET at == {i \in 1..(Len(s) - Len(sep) + 1) :
                  SubSeq(s, i, i + Len(sep) - 1) = sep}
    IN  IF at = {} THEN 0 ELSE CHOOSE i \in at : \A j \in at : i <= j

\* strings.Split with a separator that is not empty: the substrings between
\* the instances of sep, taken from the left without overlap.
RECURSIVE Split(_, _)
Split(s, sep) ==
    LET i == Index(s, sep)
    IN  IF i = 0 THEN <<s>>
        ELSE <<SubSeq(s, 1, i - 1)>>
                \o Split(SubSeq(s, i + Len(sep), Len(s)), sep)

\* The Go string the characters spell.
RECURSIVE Join(_)
Join(chars) ==
    IF chars = <<>> THEN "" ELSE Head(chars) \o Join(Tail(chars))

\* "data." and "__"
DataPrefix ==
    <<"d", "a", "t", "a", ".">>

OperatorSeparator ==
    <<"_", "_">>

\* var validOperators: each suffix maps to the Operator of the same text.
validOperators ==
    {"eq", "neq", "lt", "gt", "lte", "gte", "contains", "startswith",
     "endswith", "in"}

\* parseFilterKey: field, operator, isData
parseFilterKey(key) ==
    LET isData == HasPrefix(key, DataPrefix)
        k == IF isData THEN TrimPrefix(key, DataPrefix) ELSE key
        parts == Split(k, OperatorSeparator)
        opStr == Join(parts[Len(parts)])
    IN  IF Len(parts) = 1 THEN <<Join(parts[1]), "eq", isData>>
        ELSE IF opStr \in validOperators
                THEN <<Join(parts[1]), opStr, isData>>
                ELSE <<Join(k), "eq", isData>>

\* Field names tried in keys, character by character: columns, names with
\* one underscore at either end or inside, names holding "__", a name
\* holding a quote, the empty name.
FieldTexts ==
    {<<"s", "e", "r", "v", "i", "c", "e">>,
     <<"u", "s", "e", "r", "_", "i", "d">>,
     <<"d", "a", "t", "a">>,
     <<"a">>,
     <<"a", "_">>,
     <<"_", "a">>,
     <<"a", "_", "_", "b">>,
     <<"a", "'", "b">>,
     <<"a", ".", "b">>,
     <<>>}

\* The text of each operator, and of suffixes that are no operator.
OperatorTexts ==
    {<<"e", "q">>, <<"n", "e", "q">>, <<"l", "t">>, <<"g", "t">>,
     <<"l", "t", "e">>, <<"g", "t", "e">>,
     <<"c", "o", "n", "t", "a", "i", "n", "s">>,
     <<"s", "t", "a", "r", "t", "s", "w", "i", "t", "h">>,
     <<"e", "n", "d", "s", "w", "i", "t", "h">>,
     <<"i", "n">>}

SuffixTexts ==
    OperatorTexts \cup {<<"r", "e", "g", "e", "x">>, <<"E", "Q">>, <<>>}

\* The keys tried: [data.]<field>, and [data.]<field>__<suffix>.
FilterKeys ==
    LET fields == FieldTexts \cup {DataPrefix \o f : f \in FieldTexts}
    IN  fields
           \cup {f \o OperatorSeparator \o x : f \in fields, x \in SuffixTexts}

\* parseFilterKey is called on the key.
ParseFilterKey ==
    /\ fres = <<>>
    /\ fres' = parseFilterKey(fkey)
    /\ fkey' = fkey
    /\ UNCHANGED notKeyVars

\* ------------------------------------ routes.parseQueryParams (responder.go)
Digits ==
    {"0", "1", "2", "3", "4", "5", "6", "7", "8", "9"}

DigitValue(c) ==
    CASE c = "0" -> 0 [] c = "1" -> 1 [] c = "2" -> 2 [] c = "3" -> 3
      [] c = "4" -> 4 [] c = "5" -> 5 [] c = "6" -> 6 [] c = "7" -> 7
      [] c = "8" -> 8 [] c = "9" -> 9

\* The number a string of decimal digits writes.
RECURSIVE Number(_)
Number(ds) ==
    IF ds = <<>> THEN 0
    ELSE 10 * Number(SubSeq(ds, 1, Len(ds) - 1)) + DigitValue(ds[Len(ds)])

\* strconv.ParseInt(s, 10, 64) and strconv.Atoi(s): <<err == nil, value>>.
\* An optional sign, then one or more decimal digits; nothing else.  Digit
\* strings of up to 18 digits are within int64, and the longer ones tried
\* here are beyond it.
ParseInt(s) ==
    LET signed == s # <<>> /\ s[1] \in {"+", "-"}
        ds == IF signed THEN Tail(s) ELSE s
        ok == /\ ds # <<>>
              /\ \A i \in 1..Len(ds) : ds[i] \in Digits
              /\ Len(ds) <= 18
    IN  IF ~ok THEN <<FALSE, 0>>
        ELSE IF s[1] = "-" THEN <<TRUE, 0 - Number(ds)>>
        ELSE <<TRUE, Number(ds)>>

Atoi(s) ==
    ParseInt(s)

\* strconv.Itoa
RECURSIVE Itoa(_)
Itoa(n) ==
    IF n < 0 THEN <<"-">> \o Itoa(0 - n)
    ELSE IF n < 10 THEN <<CHOOSE c \in Digits : DigitValue(c) = n>>
    ELSE Itoa(n \div 10) \o <<CHOOSE c \in Digits : DigitValue(c) = n % 10>>

\* Days of a month of the proleptic Gregorian calendar.
DaysIn(year, month) ==
    IF month = 2
       THEN IF year % 4 = 0 /\ (year % 100 # 0 \/ year % 400 = 0)
               THEN 29 ELSE 28
       ELSE IF month \in {4, 6, 9, 11} THEN 30 ELSE 31

\* Days from 0001-01-01 to the given date.
DaysFromCivil(year, month, day) ==
    LET y == IF month <= 2 THEN year - 1 ELSE year
        era == y \div 400
        yoe == y - era * 400
        mp == IF month > 2 THEN month - 3 ELSE month + 9
        doy == (153 * mp + 2) \div 5 + day - 1
        doe == yoe * 365 + yoe \div 4 - yoe \div 100 + doy
    IN  era * 146097 + doe - 306

\* time.Unix(sec, 0)
Unix(sec) ==
    <<719162 + sec \div 86400, sec % 86400>>

\* time.Parse(time.RFC3339, s): <<err == nil, t>>, for the UTC form
\* YYYY-MM-DDTHH:MM:SSZ of the layout; every other text tried here is one
\* time.Parse refuses.
ParseRFC3339(s) ==
    LET shaped ==
            /\ Len(s) = 20
            /\ \A i \in {1, 2, 3, 4, 6, 7, 9, 10, 12, 13, 15, 16, 18, 19} :
                  s[i] \in Digits
            /\ s[5] = "-" /\ s[8] = "-" /\ s[11] = "T"
            /\ s[14] = ":" /\ s[17] = ":" /\ s[20] = "Z"
        year == Number(SubSeq(s, 1, 4))
        month == Number(SubSeq(s, 6, 7))
        day == Number(SubSeq(s, 9, 10))
        hour == Number(SubSeq(s, 12, 13))
        min == Number(SubSeq(s, 15, 16))
        sec == Number(SubSeq(s, 18, 19))
    IN  IF /\ shaped
           /\ month \in 1..12 /\ day \in 1..DaysIn(year, month)
           /\ hour < 24 /\ min < 60 /\ sec < 60
           THEN <<TRUE, <<DaysFromCivil(year, month, day),
                          hour * 3600 + min * 60 + sec>>>>
           ELSE <<FALSE, ZeroTime>>

\* Faulty variant: no fallback to Unix seconds.
ParseTimeNoUnix(s) ==
    IF s = <<>> THEN ZeroTime ELSE ParseRFC3339(s)[2]

\* The "Parse time range" blocks of parseQueryParams: what params.From
\* (params.To) is for the text q.Get("from") (q.Get("to")) returned.
ParseTime(s) ==
    IF s = <<>> THEN ZeroTime
    ELSE IF ParseRFC3339(s)[1] THEN ParseRFC3339(s)[2]
    ELSE IF ParseInt(s)[1] THEN Unix(ParseInt(s)[2])
    ELSE ZeroTime

\* The "Parse pagination" blocks: what params.Limit (params.Offset) is.
ParseCount(s) ==
    IF s # <<>> /\ Atoi(s)[1] THEN Atoi(s)[2] ELSE 0

\* url.Values.Get: the first value of the key, "" when the key is absent.
\* r.URL.Query() is a map from each key of the query string to its values, in
\* order; a key that is present has at least one value.
Get(q, name) ==
    LET ks == {k \in DOMAIN q : Join(k) = name}
    IN  IF ks = {} THEN <<>> ELSE q[CHOOSE k \in ks : TRUE][1]

\* var reservedParams
reservedParams ==
    {"from", "to", "limit", "offset", "key"}

\* Faulty variant: the last value of the key is taken.
FilterValueLast(op, values) ==
    IF op = "in"
       THEN LET parts == Split(values[Len(values)], <<",">>)
            IN  <<"list", [i \in 1..Len(parts) |-> Join(parts[i])]>>
       ELSE <<"s", Join(values[Len(values)])>>

\* The value of the filter of a key: values[0], split at commas for "in".
FilterValue(op, values) ==
    IF op = "in"
       THEN LET parts == Split(values[1], <<",">>)
            IN  <<"list", [i \in 1..Len(parts) |-> Join(parts[i])]>>
       ELSE <<"s", Join(values[1])>>

\* The "Parse filters" loop, the keys of the map met in the given order.
RECURSIVE ParseFilters(_, _)
ParseFilters(q, order) ==
    IF order = <<>> THEN <<>>
    ELSE LET key == Head(order)
             k == parseFilterKey(key)
         IN  IF Join(key) \in reservedParams \/ Len(q[key]) = 0
                THEN ParseFilters(q, Tail(order))
                ELSE <<[Field |-> k[1], Operator |-> k[2],
                        Value |-> FilterValue(k[2], q[key]),
                        IsData |-> k[3]]>>
                        \o ParseFilters(q, Tail(order))

\* parseQueryParams; it returns no error.
parseQueryParams(q, order) ==
    [Filters |-> ParseFilters(q, order),
     From |-> ParseTime(Get(q, "from")),
     To |-> ParseTime(Get(q, "to")),
     Limit |-> ParseCount(Get(q, "limit")),
     Offset |-> ParseCount(Get(q, "offset"))]

\* The orders in which "for key, values := range q" can meet the keys of
\* the map: Go leaves the iteration order of a map unspecified.
RECURSIVE Orders(_)
Orders(keys) ==
    IF keys = {} THEN {<<>>}
    ELSE UNION {{<<k>> \o o : o \in Orders(keys \ {k})} : k \in keys}

\* ------------------------------------------- squirrel: SelectBuilder.ToSql
\* The text of a statement is a sequence of pieces; a placeholder is the
\* piece "?", and text that came from the request is there character by
\* character.  The numerals of LIMIT and OFFSET are held beside the text.
\* The characters of a field that parseFilterKey cut out of a key of q: the
\* field is the start of the key, or of the key without its data. prefix.
FieldChars(field, q) ==
    LET starts(k) == {SubSeq(k, 1, j) : j \in 0..Len(k)}
        cuts == UNION {starts(k) \cup starts(TrimPrefix(k, DataPrefix))
                          : k \in DOMAIN q}
    IN  CHOOSE c \in cuts : Join(c) = field

\* squirrel.Placeholders(n): "?,?,?"
RECURSIVE Placeholders(_)
Placeholders(n) ==
    IF n = 1 THEN <<"?">> ELSE <<"?", ",">> \o Placeholders(n - 1)

\* The text and the arguments of one WHERE part: sq.Eq, sq.NotEq, sq.Lt, sq.Gt,
\* sq.LtOrEq, sq.GtOrEq, sq.Like on one column, or an expression with its
\* arguments.
PartToSql(part, q) ==
    IF part.part = "expr"
       THEN [text |-> <<"JSONExtractString(data, '">>
                         \o FieldChars(part.cond[2], q)
                         \o <<"')", " ", part.cond[3], " ", "?">>,
             args |-> part.args]
    ELSE IF part.cond = "Eq" /\ part.args[1][1] = "list"
       THEN [text |-> <<part.column, " IN (">>
                         \o Placeholders(Len(part.args[1][2])) \o <<")">>,
             args |-> [i \in 1..Len(part.args[1][2]) |->
                          <<"s", part.args[1][2][i]>>]]
    ELSE [text |-> <<part.column,
                     CASE part.cond = "Eq" -> " = "
                       [] part.cond = "NotEq" -> " <> "
                       [] part.cond = "Lt" -> " < "
                       [] part.cond = "Gt" -> " > "
                       [] part.cond = "LtOrEq" -> " <= "
                       [] part.cond = "GtOrEq" -> " >= "
                       [] part.cond = "Like" -> " LIKE ",
                     "?">>,
          args |-> part.args]

\* The WHERE parts joined by " AND ".
RECURSIVE PartsToSql(_, _)
PartsToSql(parts, q) ==
    IF parts = <<>> THEN [text |-> <<>>, args |-> <<>>]
    ELSE LET first == PartToSql(Head(parts), q)
             rest == PartsToSql(Tail(parts), q)
         IN  [text |-> first.text
                         \o (IF Tail(parts) = <<>> THEN <<>> ELSE <<" AND ">>)
                         \o rest.text,
              args |-> first.args \o rest.args]

\* uint64(n) of an int
Uint64(n) ==
    IF n >= 0 THEN <<"uint64", n>> ELSE <<"uint64: 2^64 -", 0 - n>>

\* A SelectBuilder with PlaceholderFormat(sq.Question).
Select(columns) ==
    [columns |-> columns, where |-> <<>>, orderBy |-> "", limit |-> <<>>,
     offset |-> <<>>, suffix |-> ""]

\* SelectBuilder.ToSql: SELECT, FROM eventsTable(), WHERE, ORDER BY, LIMIT,
\* OFFSET, suffix.
ToSql(builder, q) ==
    LET w == PartsToSql(builder.where, q)
    IN  [text |-> <<"SELECT ">> \o builder.columns
                    \o <<" FROM ", Database \o ".events">>
                    \o (IF builder.where = <<>> THEN <<>> ELSE <<" WHERE ">>)
                    \o w.text
                    \o (IF builder.orderBy = "" THEN <<>>
                        ELSE <<" ORDER BY ", builder.orderBy>>)
                    \o (IF builder.limit = <<>> THEN <<>> ELSE <<" LIMIT #">>)
                    \o (IF builder.offset = <<>> THEN <<>> ELSE <<" OFFSET #">>)
                    \o (IF builder.suffix = "" THEN <<>>
                        ELSE <<" ", builder.suffix>>),
         args |-> w.args,
         limit |-> builder.limit,
         offset |-> builder.offset]

\* ------------------------------------------------- services (query.go)
\* What the store answers to a statement: rows, or an error with its message.
\* The message is the store's; one of those tried quotes the statement at the
\* place of a syntax error.
StoreErrors ==
    {<<"read: connection reset by peer">>,
     <<"code: 62, message: Syntax error: failed at position 74 ('",
       "invalid label", "')">>}

\* Rows counted by the count query.
Totals ==
    {0, 100, 101, 1200}

\* Faulty variant: no ceiling.
ClampLimitNoCeiling(l) ==
    IF l <= 0 THEN 100 ELSE l

\* QueryEvents, lines 152-157
ClampLimit(l) ==
    IF l <= 0 THEN 100 ELSE IF l > 1000 THEN 1000 ELSE l

\* QueryEvents: the statements passed to the store, the error returned (<<>>
\* is nil) and result.Total.  outcome is what the store does: <<"count", m, 0>>
\* the count query fails with message m, <<"query", m, 0>> the data query
\* fails with message m, <<"ok", <<>>, n>> both succeed and the count is n.
QueryEvents(p, q, outcome) ==
    LET limit == ClampLimit(p.Limit)
        countBuilder == Select(<<"count()">>)
        countSQL == ToSql([countBuilder EXCEPT
                              !.where = applyFilters(<<>>, p)], q)
        queryBuilder ==
            [Select(<<"timestamp, service, env, job_id, request_id, trace_id, name, level, data">>)
                EXCEPT !.orderBy = "timestamp DESC",
                       !.limit = <<Uint64(limit)>>,
                       !.offset = <<Uint64(p.Offset)>>]
        querySQL == ToSql([queryBuilder EXCEPT
                              !.where = applyFilters(<<>>, p)], q)
    IN  IF outcome[1] = "count"
           THEN [issued |-> <<countSQL>>,
                 err |-> <<"count query failed: ">> \o outcome[2],
                 total |-> 0]
        ELSE IF outcome[1] = "query"
           THEN [issued |-> <<countSQL, querySQL>>,
                 err |-> <<"query failed: ">> \o outcome[2],
                 total |-> 0]
        ELSE [issued |-> <<countSQL, querySQL>>, err |-> <<>>,
              total |-> outcome[3]]

\* var validLabels: each label maps to the column of the same name.
validLabels ==
    {"service", "env", "user_id", "name", "level"}

\* Faulty variant: the filter on the label's own column is applied.
SkipsOwnFilterNever(f, column) ==
    FALSE

\* GetLabelValues, line 240
SkipsOwnFilter(f, column) ==
    ~f.IsData /\ f.Field = column

\* GetLabelValues, lines 239-248
RECURSIVE applyLabelFilters(_, _, _)
applyLabelFilters(builder, fs, column) ==
    IF fs = <<>> THEN builder
    ELSE applyLabelFilters(
             IF SkipsOwnFilter(Head(fs), column) THEN builder
             ELSE IF Head(fs).IsData
                     THEN applyDataFilter(builder, Head(fs))
                     ELSE applyColumnFilter(builder, Head(fs)),
             Tail(fs), column)

\* GetLabelValues: outcome is <<"ok", "">> or <<"query", m>>.
GetLabelValues(label, p, q, outcome) ==
    IF label \notin validLabels
       THEN [issued |-> <<>>, err |-> <<"invalid label", ": ", label>>]
    ELSE LET column == label
             filtered == applyLabelFilters(<<>>, p.Filters, column)
             lower == IF ~IsZero(p.From)
                         THEN Append(filtered,
                                     ColumnPart("GtOrEq", "timestamp",
                                                <<"t", p.From>>))
                         ELSE filtered
             upper == IF ~IsZero(p.To)
                         THEN Append(lower,
                                     ColumnPart("LtOrEq", "timestamp",
                                                <<"t", p.To>>))
                         ELSE lower
             querySQL == ToSql([Select(<<"DISTINCT ", column>>) EXCEPT
                                   !.where = upper,
                                   !.orderBy = column,
                                   !.limit = <<Uint64(1000)>>], q)
         IN  [issued |-> <<querySQL>>,
              err |-> IF outcome[1] = "ok" THEN <<>>
                      ELSE <<"query failed: ">> \o outcome[2]]

\* GetDataKeys
GetDataKeys(p, q, outcome) ==
    LET querySQL ==
            ToSql([Select(<<"DISTINCT arrayJoin(JSONExtractKeys(data)) AS key">>)
                      EXCEPT !.where = applyFilters(<<>>, p),
                             !.orderBy = "key",
                             !.limit = <<Uint64(1000)>>], q)
    IN  [issued |-> <<querySQL>>,
         err |-> IF outcome[1] = "ok" THEN <<>>
                 ELSE <<"query failed: ">> \o outcome[2]]

\* Faulty variant: the key is appended to the arguments.
DataValueArgsKeyLast(key, queryArgs) ==
    queryArgs \o <<<<"s", key>>>>

\* GetDataValues, line 340
DataValueArgs(key, queryArgs) ==
    <<<<"s", key>>>> \o queryArgs

\* GetDataValues; key is the Go string.
GetDataValues(key, p, q, outcome) ==
    IF key = ""
       THEN [issued |-> <<>>, err |-> <<"key is required">>]
    ELSE LET built0 ==
                 ToSql([Select(<<"DISTINCT JSONExtractString(data, ", "?",
                                 ") AS value">>)
                           EXCEPT !.where = applyFilters(<<>>, p),
                                  !.orderBy = "value",
                                  !.limit = <<Uint64(1000)>>,
                                  !.suffix = "HAVING value != ''"], q)
             querySQL == [built0 EXCEPT !.args = DataValueArgs(key, @)]
         IN  [issued |-> <<querySQL>>,
              err |-> IF outcome[1] = "ok" THEN <<>>
                      ELSE <<"query failed: ">> \o outcome[2]]

\* ------------------------------------------- routes: the query handlers
\* strings.Contains(err.Error(), "invalid label")
ContainsInvalidLabel(e) ==
    \E i \in 1..Len(e) : e[i] = "invalid label"

\* url.Values.Set, and the link baseURL + "?" + query.Encode().  Encode
\* writes the map sorted by key and escaped, so the link determines the map
\* and the map the link: the link is held as the path and the map.
SetValues(q, key, values) ==
    [k \in (DOMAIN q) \cup {key} |-> IF k = key THEN values ELSE q[k]]

SetValue(q, key, value) ==
    SetValues(q, key, <<value>>)

KeyOffset ==
    <<"o", "f", "f", "s", "e", "t">>

KeyLimit ==
    <<"l", "i", "m", "i", "t">>

Link(path, q, offset, limit) ==
    <<path, SetValue(SetValue(q, KeyOffset, Itoa(offset)),
                     KeyLimit, Itoa(limit))>>

\* Faulty variant: the previous offset is not held at zero.
buildPaginationURLsNoFloor(r, p, total) ==
    LET limit == IF p.Limit <= 0 THEN 100 ELSE p.Limit
    IN  [next |-> IF p.Offset + limit < total
                     THEN Link(r.path, r.query, p.Offset + limit, limit)
                     ELSE NoLink,
         previous |-> IF p.Offset > 0
                         THEN Link(r.path, r.query, p.Offset - limit, limit)
                         ELSE NoLink]

\* buildPaginationURLs
buildPaginationURLs(r, p, total) ==
    LET limit == IF p.Limit <= 0 THEN 100 ELSE p.Limit
        nextOffset == p.Offset + limit
        prevOffset == IF p.Offset - limit < 0 THEN 0 ELSE p.Offset - limit
    IN  [next |-> IF nextOffset < total
                     THEN Link(r.path, r.query, nextOffset, limit)
                     ELSE NoLink,
         previous |-> IF p.Offset > 0
                         THEN Link(r.path, r.query, prevOffset, limit)
                         ELSE NoLink]

\* What the store can do to QueryEvents, and to a service with one query.
EventsOutcomes ==
    {<<"count", m, 0>> : m \in StoreErrors}
        \cup {<<"query", m, 0>> : m \in StoreErrors}
        \cup {<<"ok", <<>>, n>> : n \in Totals}

QueryOutcomes ==
    {<<"query", m>> : m \in StoreErrors} \cup {<<"ok", <<>>>>}

\* QueryEventsHandler: GET /v1/events
QueryEventsHandler ==
    /\ httpStatus = 0
    /\ req.path = "/v1/events"
    /\ \E order \in Orders(DOMAIN req.query) :
          LET p == parseQueryParams(req.query, order)
          IN  \E outcome \in EventsOutcomes :
                 LET result == QueryEvents(p, req.query, outcome)
                     urls == buildPaginationURLs(req, p, result.total)
                 IN  /\ parsed' = p
                     /\ issued' = result.issued
                     /\ svcErr' = result.err
                     /\ IF result.err # <<>>
                           THEN httpStatus' = 500 /\ links' = NoLinks
                           ELSE /\ httpStatus' = 200
                                /\ links' = [count |-> result.total,
                                             next |-> urls.next,
                                             previous |-> urls.previous]
    /\ req' = req
    /\ UNCHANGED notRequestVars

\* GetLabelValuesHandler: GET /v1/labels/{label}/values
GetLabelValuesHandler ==
    /\ httpStatus = 0
    /\ req.path = "/v1/labels/{label}/values"
    /\ \E order \in Orders(DOMAIN req.query), outcome \in QueryOutcomes :
          LET p == parseQueryParams(req.query, order)
              result == GetLabelValues(req.label, p, req.query, outcome)
          IN  /\ parsed' = p
              /\ issued' = result.issued
              /\ svcErr' = result.err
              /\ httpStatus' = IF result.err = <<>> THEN 200
                               ELSE IF ContainsInvalidLabel(result.err)
                                       THEN 400
                                       ELSE 500
    /\ links' = NoLinks
    /\ req' = req
    /\ UNCHANGED notRequestVars

\* GetDataKeysHandler: GET /v1/data/keys
GetDataKeysHandler ==
    /\ httpStatus = 0
    /\ req.path = "/v1/data/keys"
    /\ \E order \in Orders(DOMAIN req.query), outcome \in QueryOutcomes :
          LET p == parseQueryParams(req.query, order)
              result == GetDataKeys(p, req.query, outcome)
          IN  /\ parsed' = p
              /\ issued' = result.issued
              /\ svcErr' = result.err
              /\ httpStatus' = IF result.err = <<>> THEN 200 ELSE 500
    /\ links' = NoLinks
    /\ req' = req
    /\ UNCHANGED notRequestVars

\* GetDataValuesHandler: GET /v1/data/values
GetDataValuesHandler ==
    /\ httpStatus = 0
    /\ req.path = "/v1/data/values"
    /\ IF Get(req.query, "key") = <<>>
          THEN /\ httpStatus' = 400
               /\ UNCHANGED <<parsed, issued, svcErr>>
          ELSE \E order \in Orders(DOMAIN req.query),
                  outcome \in QueryOutcomes :
                  LET p == parseQueryParams(req.query, order)
                      result == GetDataValues(Join(Get(req.query, "key")), p,
                                              req.query, outcome)
                  IN  /\ parsed' = p
                      /\ issued' = result.issued
                      /\ svcErr' = result.err
                      /\ httpStatus' = IF result.err = <<>> THEN 200 ELSE 500
    /\ links' = NoLinks
    /\ req' = req
    /\ UNCHANGED notRequestVars

\* ------------------------------------------------- services.Queue (spec 4.3)
\* enqueue(e) is a non-blocking send: a select whose send case is ready when
\* the queue has room and whose default case is taken when it is full.
SelectSend(q) ==
    Len(q) < QueueCap

\* Faulty variant: a plain blocking send: no default case.
SelectDefaultBlocking(q) ==
    FALSE

SelectDefault(q) ==
    ~SelectSend(q)

\* The send case puts the event at the tail.
EnqueueSend(q, e) ==
    Append(q, e)

\* Faulty variant: head-drop: the oldest event makes room for the arriving one.
EnqueueDefaultHeadDrop(q, e) ==
    Append(Tail(q), e)

\* The default case discards the arriving event (tail-drop).
EnqueueDefault(q, e) ==
    q

\* enqueue's counter update, after its select: enqueued counts the successful
\* inserts, dropped the events rejected because the queue was full.
EnqueueCount(taken) ==
    IF taken = "sent"
       THEN enqueued' = enqueued + 1 /\ dropped' = dropped
       ELSE dropped' = dropped + 1 /\ enqueued' = enqueued

\* stats() -> (enqueued, dropped, pending); pending is the channel length.
Stats ==
    <<enqueued, dropped, Len(queue)>>

\* ------------------------------ routes.IngestEventsHandler / parseAndEnqueue
\* Faulty variant: the server keeps accepting requests after it was stopped.
IngestEventsHandlerAfterStop(h) ==
    /\ hpc[h] = "idle"
    /\ hpc' = [hpc EXCEPT ![h] = "scan"]
    /\ lineNum' = [lineNum EXCEPT ![h] = 0]
    /\ count' = [count EXCEPT ![h] = 0]
    /\ NoOutput
    /\ UNCHANGED <<queueVars, batcherVars, storeVars, mpc, nextId,
                   inserted, validated>>
    /\ UNCHANGED otherVars

\* A request arrives while the HTTP server accepts connections.
IngestEventsHandler(h) ==
    /\ mpc = "serving"
    /\ hpc[h] = "idle"
    /\ hpc' = [hpc EXCEPT ![h] = "scan"]
    /\ lineNum' = [lineNum EXCEPT ![h] = 0]
    /\ count' = [count EXCEPT ![h] = 0]
    /\ NoOutput
    /\ UNCHANGED <<queueVars, batcherVars, storeVars, mpc, nextId,
                   inserted, validated>>
    /\ UNCHANGED otherVars

\* The handler returns: its locals die, the response is written.
Respond(h, status, n) ==
    /\ hpc' = [hpc EXCEPT ![h] = "idle"]
    /\ lineNum' = [lineNum EXCEPT ![h] = 0]
    /\ count' = [count EXCEPT ![h] = 0]
    /\ resp' = <<h, status, n>>
    /\ health' = NoHealth

\* scanner.Scan() yields an empty line: lineNum++, continue.
ScanEmpty(h) ==
    /\ hpc[h] = "scan"
    /\ lineNum[h] < MaxLines
    /\ lineNum' = [lineNum EXCEPT ![h] = @ + 1]
    /\ NoOutput
    /\ UNCHANGED <<queueVars, batcherVars, storeVars, hpc, count, mpc, nextId, inserted, validated>>
    /\ UNCHANGED otherVars

\* The line fails json.Unmarshal or Validate: return count, "line N: ...";
\* IngestEventsHandler answers 400.
ScanBad(h) ==
    /\ hpc[h] = "scan"
    /\ lineNum[h] < MaxLines
    /\ \E l \in BodyLines : LineError(l) # "nil"
    /\ Respond(h, 400, lineNum[h] + 1)
    /\ UNCHANGED <<queueVars, batcherVars, storeVars, mpc, nextId,
                   inserted, validated>>
    /\ UNCHANGED otherVars

\* Faulty variant: the event is enqueued whatever Validate returned.
ScanEventNoValidate(h) ==
    /\ hpc[h] = "scan"
    /\ lineNum[h] < MaxLines
    /\ nextId <= MaxEvents
    /\ \E l \in BodyLines :
          /\ Unmarshal(l).err = "nil"
          /\ validated' = IF Validate(Unmarshal(l).event) = "nil"
                             THEN validated \cup {nextId}
                             ELSE validated
    /\ \/ /\ SelectSend(queue)
          /\ queue' = EnqueueSend(queue, nextId)
          /\ inserted' = Append(inserted, nextId)
          /\ hpc' = [hpc EXCEPT ![h] = "sent"]
       \/ /\ SelectDefault(queue)
          /\ queue' = EnqueueDefault(queue, nextId)
          /\ inserted' = inserted
          /\ hpc' = [hpc EXCEPT ![h] = "full"]
    /\ lineNum' = [lineNum EXCEPT ![h] = @ + 1]
    /\ nextId' = nextId + 1
    /\ NoOutput
    /\ UNCHANGED <<enqueued, dropped, closed, batcherVars, storeVars, count,
                   mpc>>
    /\ UNCHANGED otherVars

\* The line parses and validates: Queue.Enqueue(&event) runs its select.
ScanEvent(h) ==
    /\ hpc[h] = "scan"
    /\ lineNum[h] < MaxLines
    /\ nextId <= MaxEvents
    /\ \E l \in BodyLines : LineError(l) = "nil"
    /\ validated' = validated \cup {nextId}
    /\ \/ /\ SelectSend(queue)
          /\ queue' = EnqueueSend(queue, nextId)
          /\ inserted' = Append(inserted, nextId)
          /\ hpc' = [hpc EXCEPT ![h] = "sent"]
       \/ /\ SelectDefault(queue)
          /\ queue' = EnqueueDefault(queue, nextId)
          /\ inserted' = inserted
          /\ hpc' = [hpc EXCEPT ![h] = "full"]
    /\ lineNum' = [lineNum EXCEPT ![h] = @ + 1]
    /\ nextId' = nextId + 1
    /\ NoOutput
    /\ UNCHANGED <<enqueued, dropped, closed, batcherVars, storeVars, count,
                   mpc>>
    /\ UNCHANGED otherVars

\* Queue.Enqueue returns and parseAndEnqueue does count++, whatever Enqueue
\* did with the event.
EnqueueReturn(h) ==
    /\ hpc[h] \in {"sent", "full"}
    /\ EnqueueCount(hpc[h])
    /\ count' = [count EXCEPT ![h] = @ + 1]
    /\ hpc' = [hpc EXCEPT ![h] = "scan"]
    /\ NoOutput
    /\ UNCHANGED <<queue, closed, batcherVars, storeVars, lineNum, mpc, nextId, inserted, validated>>
    /\ UNCHANGED otherVars

\* scanner.Scan() returns false with no error: return count, nil; 200.
ScanEOF(h) ==
    /\ hpc[h] = "scan"
    /\ Respond(h, 200, count[h])
    /\ UNCHANGED <<queueVars, batcherVars, storeVars, mpc, nextId,
                   inserted, validated>>
    /\ UNCHANGED otherVars

\* Faulty variant: pending reported as enqueued - dropped instead of the queue length.
HealthHandlerComputed ==
    /\ mpc = "serving"
    /\ health' = <<enqueued, dropped, enqueued - dropped>>
    /\ resp' = NoResp
    /\ UNCHANGED <<queueVars, batcherVars, storeVars, handlerVars, mpc,
                   nextId, inserted, validated>>
    /\ UNCHANGED otherVars

\* routes.HealthHandler: writes what Queue.Stats() returns.
HealthHandler ==
    /\ mpc = "serving"
    /\ health' = Stats
    /\ resp' = NoResp
    /\ UNCHANGED <<queueVars, batcherVars, storeVars, handlerVars, mpc,
                   nextId, inserted, validated>>
    /\ UNCHANGED otherVars

\* ---------------------------------------------- services.Batcher (spec 4.4)
\* dequeue() returned an event: append it; when the buffer has reached
\* BATCH_SIZE the next thing the loop does is flush.
BatcherDequeue ==
    /\ bpc = "run"
    /\ queue # <<>>
    /\ queue' = Tail(queue)
    /\ buffer' = Append(buffer, Head(queue))
    /\ IF Len(buffer') >= BatchSize
          THEN bpc' = "flush" /\ bret' = "run"
          ELSE UNCHANGED <<bpc, bret>>
    /\ NoOutput
    /\ UNCHANGED <<enqueued, dropped, closed, batch, tickPending, storeVars,
                   handlerVars, mpc, nextId, inserted, validated>>
    /\ UNCHANGED otherVars

\* The ticker fires every FLUSH_INTERVAL, whatever the batcher is doing; a
\* fire that finds the previous one not yet received is lost.
Tick ==
    /\ bpc # "done"
    /\ ~tickPending
    /\ tickPending' = TRUE
    /\ NoOutput
    /\ UNCHANGED <<queueVars, buffer, batch, bpc, bret, storeVars,
                   handlerVars, mpc, nextId, inserted, validated>>
    /\ UNCHANGED otherVars

\* The loop receives the tick: flush when the buffer is non-empty.
BatcherTick ==
    /\ bpc = "run"
    /\ tickPending
    /\ tickPending' = FALSE
    /\ IF buffer # <<>>
          THEN bpc' = "flush" /\ bret' = "run"
          ELSE UNCHANGED <<bpc, bret>>
    /\ NoOutput
    /\ UNCHANGED <<queueVars, buffer, batch, storeVars, handlerVars, mpc, nextId, inserted, validated>>
    /\ UNCHANGED otherVars

\* Faulty variant: the loop exits as soon as the queue is closed, events left or not.
BatcherClosedNoDrain ==
    /\ bpc = "run"
    /\ closed
    /\ bpc' = "flush"
    /\ bret' = "done"
    /\ NoOutput
    /\ UNCHANGED <<queueVars, buffer, batch, tickPending, storeVars,
                   handlerVars, mpc, nextId, inserted, validated>>
    /\ UNCHANGED otherVars

\* dequeue() returned closed (the queue is closed and drained): flush once
\* more, then exit.
BatcherClosed ==
    /\ bpc = "run"
    /\ closed
    /\ queue = <<>>
    /\ bpc' = "flush"
    /\ bret' = "done"
    /\ NoOutput
    /\ UNCHANGED <<queueVars, buffer, batch, tickPending, storeVars,
                   handlerVars, mpc, nextId, inserted, validated>>
    /\ UNCHANGED otherVars

\* Faulty variant: the live buffer is not reset.
FlushKeepsBuffer ==
    /\ bpc = "flush"
    /\ batch' = buffer
    /\ buffer' = buffer
    /\ bpc' = "write"
    /\ NoOutput
    /\ UNCHANGED <<queueVars, bret, tickPending, storeVars, handlerVars,
                   mpc, nextId, inserted, validated>>
    /\ UNCHANGED otherVars

\* Faulty variant: the flush resets the ticker, losing a tick that already fired.
FlushResetsTicker ==
    /\ bpc = "flush"
    /\ batch' = buffer
    /\ buffer' = <<>>
    /\ bpc' = "write"
    /\ tickPending' = FALSE
    /\ NoOutput
    /\ UNCHANGED <<queueVars, bret, storeVars, handlerVars, mpc, nextId,
                   inserted, validated>>
    /\ UNCHANGED otherVars

\* flush: move the buffer to a local slice, reset the live buffer, call the
\* store client's batch insert.
Flush ==
    /\ bpc = "flush"
    /\ batch' = buffer
    /\ buffer' = <<>>
    /\ bpc' = "write"
    /\ NoOutput
    /\ UNCHANGED <<queueVars, bret, tickPending, storeVars, handlerVars,
                   mpc, nextId, inserted, validated>>
    /\ UNCHANGED otherVars

\* ------------------------------------------------------- db.WriteBatch
\* Faulty variant: the guard is missing.
WriteBatchEmptyNoGuard(events) ==
    FALSE

\* Faulty variant: off by one: a batch of one event is treated as empty.
WriteBatchEmptyOffByOne(events) ==
    Len(events) <= 1

\* if len(events) == 0 { return nil }
WriteBatchEmpty(events) ==
    Len(events) = 0

\* Faulty variant: the rows are appended last event first.
AppendRowsReversed(events) ==
    [i \in 1..Len(events) |-> events[Len(events) + 1 - i]]

\* The range loop calls batch.Append once per event, in slice order: row i of
\* the INSERT carries event i.
AppendRows(events) ==
    [i \in 1..Len(events) |-> events[i]]

\* Faulty variant: a batch whose insert failed is kept and inserted again.
WriteBatchRetry ==
    /\ bpc = "write"
    /\ IF WriteBatchEmpty(batch)
          THEN UNCHANGED <<inserts, sent>> /\ bpc' = bret /\ batch' = <<>>
          ELSE /\ inserts' = Append(inserts, batch)
               /\ \/ sent' = sent /\ bpc' = "write" /\ batch' = batch
                  \/ /\ sent' = Append(sent, AppendRows(batch))
                     /\ bpc' = bret /\ batch' = <<>>
    /\ NoOutput
    /\ UNCHANGED <<queueVars, buffer, bret, tickPending, handlerVars, mpc,
                   nextId, inserted, validated>>
    /\ UNCHANGED otherVars

\* One call of WriteBatch, from entry to return.  An empty batch returns nil
\* at once.  Otherwise an INSERT is started with PrepareBatch; when that fails,
\* or an Append fails, WriteBatch returns the error without calling Send;
\* when every row was appended, Send is called and succeeds or fails.
WriteBatch ==
    /\ bpc = "write"
    /\ IF WriteBatchEmpty(batch)
          THEN UNCHANGED <<inserts, sent>>
          ELSE /\ inserts' = Append(inserts, batch)
               /\ \/ sent' = sent
                  \/ sent' = Append(sent, AppendRows(batch))
    /\ bpc' = bret
    /\ batch' = <<>>
    /\ NoOutput
    /\ UNCHANGED <<queueVars, buffer, bret, tickPending, handlerVars, mpc,
                   nextId, inserted, validated>>
    /\ UNCHANGED otherVars

\* ----------------------------------------------- db.Connect, db.Close
\* for attempt := 1; attempt <= 10; attempt++
MaxAttempts ==
    10

\* Calls of db.Close explored.
MaxCloses ==
    3

\* Faulty variant: exponential backoff.
SleepSecondsExponential(k) ==
    2 ^ (k - 1)

\* time.Sleep(time.Duration(attempt) * time.Second)
SleepSeconds(k) ==
    k

\* main calls Connect: the locals are declared and the loop starts.
Connect ==
    /\ cpc = "idle"
    /\ cpc' = "open"
    /\ attempt' = 1
    /\ conn' = 0
    /\ err' = "nil"
    /\ UNCHANGED <<Conn, Database, failures, slept, ret, closeCalls, closes,
                   closeRet>>
    /\ UNCHANGED notDbVars

\* conn, err = clickhouse.Open(...): on an error, log, then sleep.
ConnectOpen ==
    /\ cpc = "open"
    /\ \/ /\ conn' = 0
          /\ err' = "open"
          /\ failures' = Append(failures, "open")
          /\ cpc' = "sleep"
       \/ /\ conn' = attempt
          /\ err' = "nil"
          /\ failures' = failures
          /\ cpc' = "ping"
    /\ UNCHANGED <<Conn, Database, attempt, slept, ret, closeCalls, closes,
                   closeRet>>
    /\ UNCHANGED notDbVars

\* Faulty variant: the globals are set before the ping is examined.
ConnectPingAssignsFirst ==
    /\ cpc = "ping"
    /\ Conn' = conn
    /\ Database' = "db"
    /\ \/ /\ err' = "ping"
          /\ failures' = Append(failures, "ping")
          /\ cpc' = "sleep"
          /\ ret' = ret
       \/ /\ err' = "nil"
          /\ failures' = failures
          /\ ret' = <<"nil">>
          /\ cpc' = "ok"
    /\ UNCHANGED <<attempt, conn, slept, closeCalls, closes, closeRet>>
    /\ UNCHANGED notDbVars

\* err = conn.Ping(ctx): on an error, log, then sleep; otherwise set the
\* globals and return nil.
ConnectPing ==
    /\ cpc = "ping"
    /\ \/ /\ err' = "ping"
          /\ failures' = Append(failures, "ping")
          /\ cpc' = "sleep"
          /\ UNCHANGED <<Conn, Database, ret>>
       \/ /\ err' = "nil"
          /\ failures' = failures
          /\ Conn' = conn
          /\ Database' = "db"
          /\ ret' = <<"nil">>
          /\ cpc' = "ok"
    /\ UNCHANGED <<attempt, conn, slept, closeCalls, closes, closeRet>>
    /\ UNCHANGED notDbVars

\* time.Sleep(...); continue: attempt++, and the loop condition; past the
\* last attempt Connect returns the error wrapping err.
ConnectSleep ==
    /\ cpc = "sleep"
    /\ slept' = Append(slept, SleepSeconds(attempt))
    /\ attempt' = attempt + 1
    /\ IF attempt + 1 <= MaxAttempts
          THEN cpc' = "open" /\ ret' = ret
          ELSE cpc' = "exhausted" /\ ret' = <<"connect_exhausted", err>>
    /\ UNCHANGED <<Conn, Database, conn, err, failures, closeCalls, closes,
                   closeRet>>
    /\ UNCHANGED notDbVars

\* What the driver's Conn.Close() returns is the driver's business: nil or an
\* error, on a first call and on a repeated one.
DriverCloseResults ==
    {"nil", "err"}

\* db.Close: if Conn != nil { return Conn.Close() }; return nil.  Conn is
\* left as it is.
Close ==
    /\ cpc \in {"idle", "ok", "exhausted"}
    /\ closeCalls < MaxCloses
    /\ closeCalls' = closeCalls + 1
    /\ IF Conn # 0
          THEN /\ closes' = closes + 1
               /\ closeRet' \in DriverCloseResults
          ELSE /\ closes' = closes
               /\ closeRet' = "nil"
    /\ UNCHANGED <<Conn, Database, cpc, attempt, conn, err, failures, slept,
                   ret>>
    /\ UNCHANGED notDbVars

\* ------------------------------------------------- lifecycle (spec 4.8)
\* SIGTERM/SIGINT: the HTTP server stops accepting requests.
StopServer ==
    /\ mpc = "serving"
    /\ mpc' = "stopping"
    /\ NoOutput
    /\ UNCHANGED <<queueVars, batcherVars, storeVars, handlerVars, nextId, inserted, validated>>
    /\ UNCHANGED otherVars

\* The graceful stop has returned (no request in flight): close the queue.
CloseQueue ==
    /\ mpc = "stopping"
    /\ \A h \in Handlers : hpc[h] = "idle"
    /\ closed' = TRUE
    /\ mpc' = "draining"
    /\ NoOutput
    /\ UNCHANGED <<queue, enqueued, dropped, batcherVars, storeVars,
                   handlerVars, nextId, inserted, validated>>
    /\ UNCHANGED otherVars

\* Faulty variant: the store is closed before the queue.
CloseStoreBeforeQueue ==
    /\ mpc = "stopping"
    /\ mpc' = "exit"
    /\ NoOutput
    /\ UNCHANGED <<queueVars, batcherVars, storeVars, handlerVars, nextId, inserted, validated>>
    /\ UNCHANGED otherVars

\* The batcher has drained and exited: close the store, exit.
CloseStore ==
    /\ mpc = "draining"
    /\ bpc = "done"
    /\ mpc' = "exit"
    /\ NoOutput
    /\ UNCHANGED <<queueVars, batcherVars, storeVars, handlerVars, nextId, inserted, validated>>
    /\ UNCHANGED otherVars

\* "Any component failing its graceful step within its timeout is logged and
\* shutdown proceeds."  The graceful HTTP stop gave up with requests still in
\* flight: the queue is closed all the same.
CloseQueueLate ==
    /\ mpc = "stopping"
    /\ \E h \in Handlers : hpc[h] # "idle"
    /\ closed' = TRUE
    /\ mpc' = "draining"
    /\ NoOutput
    /\ UNCHANGED <<queue, enqueued, dropped, batcherVars, storeVars,
                   handlerVars, nextId, inserted, validated>>
    /\ UNCHANGED otherVars

\* The wait for the batcher gave up before the batcher had exited: the store
\* is closed all the same.
CloseStoreLate ==
    /\ mpc = "draining"
    /\ bpc # "done"
    /\ mpc' = "exit"
    /\ NoOutput
    /\ UNCHANGED <<queueVars, batcherVars, storeVars, handlerVars, nextId, inserted, validated>>
    /\ UNCHANGED otherVars

\* enqueue(e) called on a closed queue.  The spec gives close() no effect on
\* producers, so the call may behave as on an open queue (ScanEvent); when the
\* queue is a channel that close() closed, the send panics and the request's
\* goroutine is unwound without a response.
EnqueueOnClosed(h) ==
    /\ hpc[h] = "scan"
    /\ lineNum[h] < MaxLines
    /\ nextId <= MaxEvents
    /\ closed
    /\ hpc' = [hpc EXCEPT ![h] = "idle"]
    /\ lineNum' = [lineNum EXCEPT ![h] = 0]
    /\ count' = [count EXCEPT ![h] = 0]
    /\ nextId' = nextId + 1
    /\ validated' = validated \cup {nextId}
    /\ NoOutput
    /\ UNCHANGED <<queueVars, batcherVars, storeVars, mpc, inserted>>
    /\ UNCHANGED otherVars

\* ------------------------------------------------------- specification
Next ==
    \/ \E h \in Handlers : IngestEventsHandler(h)
    \/ \E h \in Handlers : ScanEmpty(h)
    \/ \E h \in Handlers : ScanBad(h)
    \/ \E h \in Handlers : ScanEvent(h)
    \/ \E h \in Handlers : EnqueueReturn(h)
    \/ \E h \in Handlers : ScanEOF(h)
    \/ HealthHandler
    \/ BatcherDequeue
    \/ Tick
    \/ BatcherTick
    \/ BatcherClosed
    \/ Flush
    \/ WriteBatch
    \/ StopServer
    \/ CloseQueue
    \/ CloseStore

Spec == Init /\ [][Next]_vars

\* The batcher goroutine, the ticker and the store call are scheduled: the
\* loop's select takes a ready case, the runtime timer fires, and every store
\* insert returns (successfully or by its context deadline).
BatcherFair ==
    /\ WF_vars(BatcherDequeue)
    /\ WF_vars(Tick)
    /\ WF_vars(BatcherTick)
    /\ WF_vars(BatcherClosed)
    /\ WF_vars(Flush)
    /\ WF_vars(WriteBatch)

FairSpec == Spec /\ BatcherFair

\* The pipeline with a shutdown whose graceful steps may time out.
ShutdownNext ==
    \/ Next
    \/ CloseQueueLate
    \/ CloseStoreLate
    \/ \E h \in Handlers : EnqueueOnClosed(h)

ShutdownSpec == Init /\ [][ShutdownNext]_vars

\* Package db driven on its own: one Connect, and Close called before it,
\* after it, and repeatedly.
StoreInit ==
    /\ PipelineInit
    /\ DbInit
    /\ NoLine
    /\ NoBody
    /\ NoQuery
    /\ NoKey
    /\ NoRequest
    /\ NoAnalytics
    /\ NoWrite

StoreNext ==
    \/ Connect
    \/ ConnectOpen
    \/ ConnectPing
    \/ ConnectSleep
    \/ Close

StoreSpec == StoreInit /\ [][StoreNext]_vars

\* One line of every kind taken through json.Unmarshal and Validate.
LineInit ==
    /\ PipelineInit
    /\ DbConnected
    /\ line \in Lines
    /\ verr = "none"
    /\ NoBody
    /\ NoQuery
    /\ NoKey
    /\ NoRequest
    /\ NoAnalytics
    /\ NoWrite

LineNext ==
    ParseLine

LineSpec == LineInit /\ [][LineNext]_vars

RECURSIVE SeqsUpTo(_, _)
SeqsUpTo(S, n) ==
    IF n = 0 THEN {<<>>}
    ELSE LET shorter == SeqsUpTo(S, n - 1)
         IN  shorter \cup {Append(b, k) : b \in shorter, k \in S}

\* One request body of every shape taken through the handler.  For a body
\* that is too large, the tokens are those scanned before the read fails, the
\* last of them whatever the cut left of its line.
BodyInit ==
    /\ PipelineInit
    /\ DbConnected
    /\ NoLine
    /\ body \in SeqsUpTo(TokenKinds, MaxBody)
    /\ tooLarge \in BOOLEAN
    /\ pos = 0 /\ accepted = 0 /\ calls = <<>>
    /\ code = 0 /\ errLine = 0
    /\ NoQuery
    /\ NoKey
    /\ NoRequest
    /\ NoAnalytics
    /\ NoWrite

BodyNext ==
    \/ BodyScan
    \/ BodyEnd

BodySpec == BodyInit /\ [][BodyNext]_vars

\* One QueryParams of every shape taken through applyFilters.
QueryInit ==
    /\ PipelineInit
    /\ DbConnected
    /\ NoLine
    /\ NoBody
    /\ params \in [Filters : SeqsUpTo(Filters, MaxFilters),
                    From : {ZeroTime, <<719162, 1>>},
                    To : {ZeroTime, <<719162, 2>>}]
    /\ where = <<>>
    /\ built = FALSE
    /\ NoKey
    /\ NoRequest
    /\ NoAnalytics
    /\ NoWrite

QueryNext ==
    BuildQuery

QuerySpec == QueryInit /\ [][QueryNext]_vars

\* One query-string key of every shape taken through parseFilterKey.
KeyInit ==
    /\ PipelineInit
    /\ DbConnected
    /\ NoLine
    /\ NoBody
    /\ NoQuery
    /\ fkey \in FilterKeys
    /\ fres = <<>>
    /\ NoRequest
    /\ NoAnalytics
    /\ NoWrite

KeyNext ==
    ParseFilterKey

KeySpec == KeyInit /\ [][KeyNext]_vars

\* ------------------------------------------------ the requests tried
\* Keys of one query string, at most.
MaxKeys ==
    2

\* The query strings with at most n of the given <<key, values>> pairs, no
\* key twice.
RECURSIVE QueriesUpTo(_, _)
QueriesUpTo(pairs, n) ==
    IF n = 0 THEN {<<>>}
    ELSE LET fewer == QueriesUpTo(pairs, n - 1)
         IN  fewer \cup UNION {{SetValues(q, p[1], p[2]) :
                                   p \in {x \in pairs : x[1] \notin DOMAIN q}}
                                  : q \in fewer}

KeyFrom ==
    <<"f", "r", "o", "m">>

KeyTo ==
    <<"t", "o">>

KeyKey ==
    <<"k", "e", "y">>

\* Events search: filters on columns, on a name that is no column and on
\* data keys, with and without an operator.  One value or two; a value with
\* a comma; one with a quote, a semicolon and a comment marker.
SearchFilterPairs ==
    {<<<<"s", "e", "r", "v", "i", "c", "e">>,
       <<<<"a", "p", "i">>>>>>,
     <<<<"s", "e", "r", "v", "i", "c", "e">>,
       <<<<"'", ";", "-", "-">>>>>>,
     <<<<"s", "e", "r", "v", "i", "c", "e">>,
       <<<<"a", "p", "i">>, <<"'", ";", "-", "-">>>>>>,
     <<<<"l", "e", "v", "e", "l", "_", "_", "i", "n">>,
       <<<<"a", "p", "i">>>>>>,
     <<<<"l", "e", "v", "e", "l", "_", "_", "i", "n">>,
       <<<<"a", ",", "b">>>>>>,
     <<<<"l", "e", "v", "e", "l", "_", "_", "i", "n">>,
       <<<<"'", ";", "-", "-">>>>>>,
     <<<<"n", "a", "m", "e", "_", "_", "c", "o", "n", "t", "a", "i", "n", "s">>,
       <<<<"a", "p", "i">>>>>>,
     <<<<"n", "a", "m", "e", "_", "_", "c", "o", "n", "t", "a", "i", "n", "s">>,
       <<<<"'", ";", "-", "-">>>>>>,
     <<<<"b", "o", "g", "u", "s">>,
       <<<<"a", "p", "i">>>>>>,
     <<<<"d", "a", "t", "a", ".", "a">>,
       <<<<"a", "p", "i">>>>>>,
     <<<<"d", "a", "t", "a", ".", "a">>,
       <<<<"'", ";", "-", "-">>>>>>,
     <<<<"d", "a", "t", "a", ".", "a", "'", "b">>,
       <<<<"a", "p", "i">>>>>>,
     <<<<"d", "a", "t", "a", ".", "k", "_", "_", "i", "n">>,
       <<<<"a", ",", "b">>>>>>,
     <<<<"d", "a", "t", "a", ".", "q", "?">>,
       <<<<"a", "p", "i">>>>>>}

SearchPairs ==
    SearchFilterPairs
        \cup {<<KeyFrom, <<<<"1", "0">>>>>>, <<KeyTo, <<<<"2", "0">>>>>>,
              <<KeyLimit, <<<<"7">>>>>>, <<KeyOffset, <<<<"3">>>>>>,
              <<KeyKey, <<<<"k">>>>>>}

\* Pagination: limit and offset of every kind, beside other parameters.
LimitValues ==
    {<<<<"0">>>>, <<<<"-", "5">>>>, <<<<"1">>>>, <<<<"5", "0">>>>,
     <<<<"1", "0", "0", "0">>>>, <<<<"1", "0", "0", "1">>>>,
     <<<<"5", "0", "0", "0">>>>, <<<<"a", "b", "c">>>>, <<<<>>>>}

OffsetValues ==
    {<<<<"0">>>>, <<<<"5", "0">>>>, <<<<"1", "0", "0">>>>,
     <<<<"-", "5">>>>, <<<<"x">>>>}

PagePairs ==
    {<<KeyLimit, v>> : v \in LimitValues}
        \cup {<<KeyOffset, v>> : v \in OffsetValues}
        \cup {<<<<"s", "e", "r", "v", "i", "c", "e">>, v>> : v \in {<<<<"a", "p", "i">>>>, <<<<"a", "p", "i">>, <<"w", "e", "b">>>>}}
        \cup {<<<<"l", "e", "v", "e", "l">>, <<<<"e", "r", "r", "o", "r">>>>>>}

\* Time range: from and to in RFC 3339, as integers, and as neither.
TimeValues ==
    {<<<<"2", "0", "2", "4", "-", "0", "2", "-", "2", "9", "T", "1", "2", ":", "0", "0", ":", "0", "0", "Z">>>>,
     <<<<"2", "0", "2", "3", "-", "0", "2", "-", "2", "9", "T", "1", "2", ":", "0", "0", ":", "0", "0", "Z">>>>,
     <<<<"1", "9", "7", "0", "-", "0", "1", "-", "0", "1", "T", "0", "0", ":", "0", "0", ":", "1", "0", "Z">>>>,
     <<<<"1", "0">>>>,
     <<<<"1", "7", "0", "0", "0", "0", "0", "0", "0", "0">>>>,
     <<<<"-", "1">>>>,
     <<<<"0", "0", "0", "1", "-", "0", "1", "-", "0", "1", "T", "0", "0", ":", "0", "0", ":", "0", "0", "Z">>>>,
     <<<<"2", "0", "2", "4", "-", "0", "1", "-", "0", "2">>>>,
     <<<<"1", "2", "a", "b", "c">>>>,
     <<<<"y", "e", "s", "t", "e", "r", "d", "a", "y">>>>,
     <<<<"9", "9", "9", "9", "9", "9", "9", "9", "9", "9", "9", "9", "9", "9", "9", "9", "9", "9", "9", "9">>>>,
     <<<<>>>>}

TimePairs ==
    {<<k, v>> : k \in {KeyFrom, KeyTo}, v \in TimeValues}
        \cup {<<<<"s", "e", "r", "v", "i", "c", "e">>, <<<<"a", "p", "i">>>>>>}

\* Label values: filters on the label's own column and on others.
LabelFilterPairs ==
    {<<<<"s", "e", "r", "v", "i", "c", "e">>,
       <<<<"a", "p", "i">>>>>>,
     <<<<"s", "e", "r", "v", "i", "c", "e", "_", "_", "n", "e", "q">>,
       <<<<"a", "p", "i">>>>>>,
     <<<<"d", "a", "t", "a", ".", "s", "e", "r", "v", "i", "c", "e">>,
       <<<<"a", "p", "i">>>>>>,
     <<<<"l", "e", "v", "e", "l">>,
       <<<<"a", "p", "i">>>>>>,
     <<<<"e", "n", "v", "_", "_", "c", "o", "n", "t", "a", "i", "n", "s">>,
       <<<<"a", "p", "i">>>>>>,
     <<<<"b", "o", "g", "u", "s">>,
       <<<<"a", "p", "i">>>>>>,
     <<<<"d", "a", "t", "a", ".", "a", "_", "_", "g", "t">>,
       <<<<"a", "p", "i">>>>>>,
     <<<<"s", "e", "r", "v", "i", "c", "e", "_", "_", "i", "n">>,
       <<<<"a", ",", "b">>>>>>}

LabelPairs ==
    LabelFilterPairs
        \cup {<<KeyFrom, <<<<"1", "0">>>>>>, <<KeyTo, <<<<"2", "0">>>>>>}

\* The {label} of the route: the labels, other columns, and no column.
Labels ==
    validLabels \cup {"job_id", "timestamp", "Service"}

\* Data keys and data values: the key parameter present, empty and absent,
\* beside filters.
ValuesPairs ==
    {<<KeyKey, v>> : v \in {<<<<"m", "e", "t", "h", "o", "d">>>>, <<<<"a", "'", "b">>>>, <<<<>>>>}}
        \cup {<<<<"s", "e", "r", "v", "i", "c", "e">>, <<<<"a", "p", "i">>>>>>,
              <<<<"l", "e", "v", "e", "l", "_", "_", "i", "n">>, <<<<"a", ",", "b">>>>>>,
              <<<<"d", "a", "t", "a", ".", "a", "_", "_", "g", "t">>, <<<<"5">>>>>>,
              <<<<"d", "a", "t", "a", ".", "q", "?">>, <<<<"x">>>>>>,
              <<<<"d", "a", "t", "a", ".", "k", "_", "_", "i", "n">>, <<<<"a", ",", "b">>>>>>,
              <<<<"b", "o", "g", "u", "s">>, <<<<"x">>>>>>,
              <<KeyFrom, <<<<"1", "0">>>>>>}

\* One events search of every shape taken through QueryEventsHandler.
RequestInit(path, labels, queries) ==
    /\ PipelineInit
    /\ DbConnected
    /\ NoLine
    /\ NoBody
    /\ NoQuery
    /\ NoKey
    /\ NoAnalytics
    /\ NoWrite
    /\ req \in [path : path, label : labels, query : queries]
    /\ parsed = NoParams
    /\ issued = <<>>
    /\ svcErr = <<>>
    /\ httpStatus = 0
    /\ links = NoLinks

SearchInit ==
    RequestInit({"/v1/events"}, {""}, QueriesUpTo(SearchPairs, MaxKeys))

SearchNext ==
    QueryEventsHandler

SearchSpec == SearchInit /\ [][SearchNext]_vars

\* Events searches with limit, offset and other parameters together.
PageInit ==
    RequestInit({"/v1/events"}, {""}, QueriesUpTo(PagePairs, MaxKeys + 1))

PageNext ==
    QueryEventsHandler

PageSpec == PageInit /\ [][PageNext]_vars

\* Events searches with from and to.
TimeInit ==
    RequestInit({"/v1/events"}, {""}, QueriesUpTo(TimePairs, MaxKeys))

TimeNext ==
    QueryEventsHandler

TimeSpec == TimeInit /\ [][TimeNext]_vars

\* One label-values request of every shape.
LabelInit ==
    RequestInit({"/v1/labels/{label}/values"}, Labels,
                QueriesUpTo(LabelPairs, MaxKeys))

LabelNext ==
    GetLabelValuesHandler

LabelSpec == LabelInit /\ [][LabelNext]_vars

\* One data-keys or data-values request of every shape.
ValuesInit ==
    RequestInit({"/v1/data/keys", "/v1/data/values"}, {""},
                QueriesUpTo(ValuesPairs, MaxKeys + 1))

ValuesNext ==
    \/ GetDataKeysHandler
    \/ GetDataValuesHandler

ValuesSpec == ValuesInit /\ [][ValuesNext]_vars

\* ------------------------------- analytics: time series (spec 4.6.6)
\* An instant is its Unix seconds.  interval is one of these units.
Intervals ==
    {"minute", "hour", "day", "week", "month"}

\* The seconds of the units of fixed length.
IntervalSeconds(interval) ==
    CASE interval = "minute" -> 60
      [] interval = "hour" -> 3600
      [] interval = "day" -> 86400
      [] interval = "week" -> 7 * 86400

\* The first instant of the month an instant lies in.
MonthStart(t) ==
    LET day == t \div 86400 + 719162
        next(x) == IF x[2] = 12 THEN <<x[1] + 1, 1>> ELSE <<x[1], x[2] + 1>>
        ym == CHOOSE x \in (1970..2037) \X (1..12) :
                 /\ DaysFromCivil(x[1], x[2], 1) <= day
                 /\ day < DaysFromCivil(next(x)[1], next(x)[2], 1)
    IN  (DaysFromCivil(ym[1], ym[2], 1) - 719162) * 86400

\* toStartOfInterval(timestamp, INTERVAL 1 <unit>); weeks start on Monday,
\* and 1970-01-01 was a Thursday.
BucketStart(interval, t) ==
    CASE interval = "month" -> MonthStart(t)
      [] interval = "week" -> t - ((t + 3 * 86400) % (7 * 86400))
      [] OTHER -> t - (t % IntervalSeconds(interval))

\* The bucket after the one that starts at b.
NextBucket(interval, b) ==
    IF interval = "month" THEN MonthStart(b + 32 * 86400)
    ELSE b + IntervalSeconds(interval)

\* The first bucket start that is not before from.
FirstBucket(interval, from) ==
    IF BucketStart(interval, from) = from THEN from
    ELSE NextBucket(interval, BucketStart(interval, from))

\* The bucket starts from b on that are not after to, n of them at most.
RECURSIVE BucketsFrom(_, _, _, _)
BucketsFrom(interval, b, to, n) ==
    IF n = 0 \/ b > to THEN <<>>
    ELSE <<b>> \o BucketsFrom(interval, NextBucket(interval, b), to, n - 1)

\* The bucket starts in [from, to], in order.
Buckets(interval, from, to) ==
    LET first == FirstBucket(interval, from)
    IN  IF interval = "month" THEN BucketsFrom(interval, first, to, 12)
        ELSE IF first > to THEN <<>>
        ELSE [i \in 1..((to - first) \div IntervalSeconds(interval) + 1) |->
                 first + (i - 1) * IntervalSeconds(interval)]

\* Max range 90 days; max 10 000 buckets.
MaxRangeDays ==
    90

MaxBuckets ==
    10000

\* Faulty variant: no ceiling on the range.
RangeTooLongNever(from, to) ==
    FALSE

RangeTooLong(from, to) ==
    to - from > MaxRangeDays * 86400

\* Faulty variant: no ceiling on the buckets.
TooManyBucketsNever(interval, from, to) ==
    FALSE

TooManyBuckets(interval, from, to) ==
    Len(Buckets(interval, from, to)) > MaxBuckets

\* The statement of a time series: the aggregate per bucket, of the rows
\* within [from, to], by bucket.
TimeSeriesSql(r) ==
    [text |-> <<"SELECT ", "toStartOfInterval(timestamp, INTERVAL 1 ",
                r.interval, ")", " AS bucket, ", "count()", " AS value">>
                \o (IF r.group_by = <<>> THEN <<>>
                    ELSE <<", ", r.group_by[1]>>)
                \o <<" FROM ", Database \o ".events", " WHERE ",
                     "timestamp", " >= ", "?", " AND ",
                     "timestamp", " <= ", "?", " GROUP BY ", "bucket">>
                \o (IF r.group_by = <<>> THEN <<>>
                    ELSE <<", ", r.group_by[1]>>)
                \o <<" ORDER BY ", "bucket">>,
     args |-> <<<<"t", r.from>>, <<"t", r.to>>>>]

\* Faulty variant: the buckets without rows are left out.
FillZerosNot(interval, from, to, points) ==
    points

\* Faulty variant: the synthesized points are put after the store's.
FillZerosAtEnd(interval, from, to, points) ==
    LET bs == Buckets(interval, from, to)
        absent == SelectSeq(bs, LAMBDA b :
                      \A j \in 1..Len(points) : points[j].timestamp # b)
    IN  points \o [i \in 1..Len(absent) |->
                      [timestamp |-> absent[i], value |-> 0]]

\* Zero-fill: a point of value 0 for every bucket in [from, to] the store
\* has no row for, in timestamp order among the store's points.
FillZeros(interval, from, to, points) ==
    LET bs == Buckets(interval, from, to)
    IN  [i \in 1..Len(bs) |->
            IF \E j \in 1..Len(points) : points[j].timestamp = bs[i]
               THEN points[CHOOSE j \in 1..Len(points) :
                              points[j].timestamp = bs[i]]
               ELSE [timestamp |-> bs[i], value |-> 0]]

\* bad_request, before any statement.
BadRequest ==
    [status |-> 400, issued |-> <<>>, rows |-> <<>>, data |-> <<>>]

\* The time series operation.  answer is what the store does: <<"error">>, or
\* <<"rows", s>> with s the points of each series, by bucket.
TimeSeries(r, answer) ==
    IF r.interval \notin Intervals THEN BadRequest
    ELSE IF RangeTooLong(r.from, r.to) THEN BadRequest
    ELSE IF TooManyBuckets(r.interval, r.from, r.to) THEN BadRequest
    ELSE IF answer[1] = "error"
       THEN [status |-> 500, issued |-> <<TimeSeriesSql(r)>>,
             rows |-> <<>>, data |-> <<>>]
    ELSE LET series == answer[2]
         IN  [status |-> 200, issued |-> <<TimeSeriesSql(r)>>,
              rows |-> series,
              data |-> IF r.fill_zeros /\ Cardinality(DOMAIN series) <= 1
                          THEN LET name == IF DOMAIN series = {} THEN ""
                                           ELSE CHOOSE n \in DOMAIN series :
                                                   TRUE
                                   points == IF DOMAIN series = {} THEN <<>>
                                             ELSE series[name]
                               IN  [n \in {name} |->
                                       FillZeros(r.interval, r.from, r.to,
                                                 points)]
                          ELSE series]

\* Buckets, from the first on, for which the store may have rows.
MaxRows ==
    3

\* What the store can answer a time series: an error; no rows; one series
\* with a value for some of the first buckets of the range; two series.
StoreAnswers(r) ==
    LET bs == BucketsFrom(r.interval, FirstBucket(r.interval, r.from), r.to,
                          MaxRows)
        name == IF r.group_by = <<>> THEN "" ELSE "api"
        \* f[i] is the value of bucket i, 0 when the store has no row for it
        points(f) == LET has == SelectSeq([i \in 1..Len(bs) |-> i],
                                          LAMBDA i : f[i] # 0)
                     IN  [k \in 1..Len(has) |->
                             [timestamp |-> bs[has[k]], value |-> f[has[k]]]]
        one == {IF points(f) = <<>> THEN <<"rows", <<>>>>
                ELSE <<"rows", [n \in {name} |-> points(f)]>> :
                   f \in [1..Len(bs) -> {0, 3, 5}]}
        two == IF r.group_by = <<>> \/ bs = <<>> THEN {}
               ELSE {<<"rows", [n \in {"api", "web"} |->
                                   <<[timestamp |-> bs[1],
                                      value |-> IF n = "api" THEN 3 ELSE 5]>>]>>}
    IN  {<<"error">>} \cup one \cup two

\* The time series handler: POST /v1/timeseries.
TimeSeriesHandler ==
    /\ areq.op = "timeseries"
    /\ aout.status = 0
    /\ \E answer \in (IF areq.interval \in Intervals
                         THEN StoreAnswers(areq) ELSE {<<"error">>}) :
          aout' = TimeSeries(areq, answer)
    /\ areq' = areq
    /\ UNCHANGED notAnalyticsVars

\* 2024-01-01T00:00:00Z, a Monday: the start of a minute, an hour, a day, a
\* week and a month.
SampleStart ==
    (DaysFromCivil(2024, 1, 1) - 719162) * 86400

\* The ranges tried for each interval, in seconds from SampleStart: short
\* ones and ones that end between two bucket starts, also under an interval
\* that is none.
TimeSeriesWindows ==
    {<<"minute", 0>>, <<"minute", 120>>, <<"minute", 150>>,
     <<"hour", 7200>>, <<"hour", 9000>>,
     <<"day", 3 * 86400>>, <<"day", 90 * 86400>>,
     <<"week", 14 * 86400>>,
     <<"month", 60 * 86400>>,
     <<"year", 7200>>}

\* Ranges at and beyond the ceilings: 10 000 and 10 001 buckets, 90 days and
\* more.
CeilingWindows ==
    {<<"minute", 9999 * 60>>, <<"minute", 10000 * 60>>,
     <<"minute", 90 * 86400 + 1>>,
     <<"hour", 90 * 86400>>, <<"hour", 90 * 86400 + 1>>,
     <<"day", 91 * 86400>>,
     <<"week", 91 * 86400>>,
     <<"month", 90 * 86400 + 1>>}

TimeSeriesRequest(w, f, g) ==
    [op |-> "timeseries", interval |-> w[1], from |-> SampleStart,
     to |-> SampleStart + w[2], fill_zeros |-> f, group_by |-> g]

TimeSeriesRequests ==
    {TimeSeriesRequest(w, f, g) :
        w \in TimeSeriesWindows, f \in BOOLEAN, g \in {<<>>, <<"service">>}}
    \cup {TimeSeriesRequest(w, FALSE, g) :
             w \in CeilingWindows, g \in {<<>>, <<"service">>}}

AnalyticsInit(requests) ==
    /\ PipelineInit
    /\ DbConnected
    /\ NoLine
    /\ NoBody
    /\ NoQuery
    /\ NoKey
    /\ NoRequest
    /\ areq \in requests
    /\ aout = NoOutcome
    /\ NoWrite

SeriesInit ==
    AnalyticsInit(TimeSeriesRequests)

SeriesNext ==
    TimeSeriesHandler

SeriesSpec == SeriesInit /\ [][SeriesNext]_vars

\* ----------------------------------- analytics: compare (spec 4.6.9)
\* Faulty variant: the previous window is the current one moved back by a
\* day.
CompareWindowDayBefore(r) ==
    IF r.compare # <<>> THEN r.compare
    ELSE <<r.from - 86400, r.to - 86400>>

\* The previous window: [compare_from, compare_to], or when that is absent
\* the window of the same duration immediately preceding from.
CompareWindow(r) ==
    IF r.compare # <<>> THEN r.compare
    ELSE <<r.from - (r.to - r.from), r.from>>

\* Faulty variant: the division is made whatever previous is.
ChangePercentUnguarded(current, previous) ==
    <<100 * (current - previous), previous>>

\* change_percent = 100 (current - previous) / previous, or 0 if previous
\* = 0: the quotient as <<numerator, denominator>>.
ChangePercent(current, previous) ==
    IF previous = 0 THEN <<0, 1>>
    ELSE <<100 * (current - previous), previous>>

\* The ungrouped analytics statement over one window.
AnalyticsSql(window) ==
    [text |-> <<"SELECT ", "count()", " AS value", " FROM ",
                Database \o ".events", " WHERE ", "timestamp", " >= ", "?",
                " AND ", "timestamp", " <= ", "?">>,
     args |-> <<<<"t", window[1]>>, <<"t", window[2]>>>>]

\* Values the store gives an aggregation.
CompareValues ==
    {0, 1, 1342, 1523}

\* What the store can do to the two queries of a comparison: fail the first,
\* fail the second, or answer both.
CompareAnswers ==
    {<<"error", 1>>, <<"error", 2>>}
        \cup {<<"values", c, p>> : c \in CompareValues, p \in CompareValues}

\* The compare operation: analytics over [from, to], then over the previous
\* window.
Compare(r, answer) ==
    LET current == AnalyticsSql(<<r.from, r.to>>)
        previous == AnalyticsSql(CompareWindow(r))
    IN  IF answer = <<"error", 1>>
           THEN [status |-> 500, issued |-> <<current>>, rows |-> <<>>,
                 data |-> <<>>]
        ELSE IF answer = <<"error", 2>>
           THEN [status |-> 500, issued |-> <<current, previous>>,
                 rows |-> <<>>, data |-> <<>>]
        ELSE [status |-> 200, issued |-> <<current, previous>>,
              rows |-> <<answer[2], answer[3]>>,
              data |-> [current |-> answer[2], previous |-> answer[3],
                        change |-> answer[2] - answer[3],
                        change_percent |->
                            ChangePercent(answer[2], answer[3])]]

\* The compare handler: POST /v1/compare.
CompareHandler ==
    /\ areq.op = "compare"
    /\ aout.status = 0
    /\ \E answer \in CompareAnswers : aout' = Compare(areq, answer)
    /\ areq' = areq
    /\ UNCHANGED notAnalyticsVars

\* Comparisons over an hour, a day less a second, a day and thirty days,
\* with no compare window, with the same hour a week before, and with a
\* compare window longer than the current one.
CompareRequests ==
    {[op |-> "compare", from |-> SampleStart, to |-> SampleStart + d,
      compare |-> c] :
        d \in {3600, 86399, 86400, 30 * 86400},
        c \in {<<>>,
               <<SampleStart - 7 * 86400, SampleStart - 7 * 86400 + 3600>>,
               <<SampleStart - 60 * 86400, SampleStart - 86400>>}}

CompareInit ==
    AnalyticsInit(CompareRequests)

CompareNext ==
    CompareHandler

CompareSpec == CompareInit /\ [][CompareNext]_vars

\* ------------------------------------------- db.WriteBatch, call by call
\* The columns of the INSERT, in the order of the statement and of Append.
InsertColumns ==
    <<"timestamp", "service", "env", "job_id", "request_id", "trace_id",
      "user_id", "name", "level", "data">>

\* What the driver can do to a call of WriteBatch: PrepareBatch fails, the
\* k-th Append fails, Send fails, or nothing fails.
DriverOutcomes(events) ==
    {<<"prepare", 0>>, <<"send", 0>>, <<"ok", 0>>}
        \cup {<<"append", k>> : k \in 1..Len(events)}

\* Faulty variant: the rows appended before a failed Append are sent.
WriteBatchCallsSendsPartial(events, outcome) ==
    LET prepare == <<"PrepareBatch", Database \o ".events", InsertColumns>>
        rows == AppendRows(events)
        appends(n) == [i \in 1..n |-> <<"Append", rows[i]>>]
    IN  IF WriteBatchEmpty(events) THEN [calls |-> <<>>, ret |-> "nil"]
        ELSE IF outcome[1] = "prepare"
           THEN [calls |-> <<prepare>>, ret |-> "failed to prepare batch"]
        ELSE IF outcome[1] = "append"
           THEN [calls |-> <<prepare>> \o appends(outcome[2]) \o <<<<"Send">>>>,
                 ret |-> "failed to append event to batch"]
        ELSE [calls |-> <<prepare>> \o appends(Len(events)) \o <<<<"Send">>>>,
              ret |-> IF outcome[1] = "send" THEN "failed to send batch"
                      ELSE "nil"]

\* WriteBatch: the calls it makes on the driver, in order, and what it
\* returns ("nil", or the text its error starts with).
WriteBatchCalls(events, outcome) ==
    LET prepare == <<"PrepareBatch", Database \o ".events", InsertColumns>>
        rows == AppendRows(events)
        appends(n) == [i \in 1..n |-> <<"Append", rows[i]>>]
    IN  IF WriteBatchEmpty(events) THEN [calls |-> <<>>, ret |-> "nil"]
        ELSE IF outcome[1] = "prepare"
           THEN [calls |-> <<prepare>>, ret |-> "failed to prepare batch"]
        ELSE IF outcome[1] = "append"
           THEN [calls |-> <<prepare>> \o appends(outcome[2]),
                 ret |-> "failed to append event to batch"]
        ELSE [calls |-> <<prepare>> \o appends(Len(events)) \o <<<<"Send">>>>,
              ret |-> IF outcome[1] = "send" THEN "failed to send batch"
                      ELSE "nil"]

\* One call of WriteBatch.
WriteBatchCall ==
    /\ wout = NotCalled
    /\ \E outcome \in DriverOutcomes(wevents) :
          wout' = WriteBatchCalls(wevents, outcome)
    /\ wevents' = wevents
    /\ UNCHANGED notWriteVars

\* Events of one call, and the longest batch tried.
WriteEvents ==
    {1, 2, 3}

MaxBatch ==
    3

WriteInit ==
    /\ PipelineInit
    /\ DbConnected
    /\ NoLine
    /\ NoBody
    /\ NoQuery
    /\ NoKey
    /\ NoRequest
    /\ NoAnalytics
    /\ wevents \in SeqsUpTo(WriteEvents, MaxBatch)
    /\ wout = NotCalled

WriteNext ==
    WriteBatchCall

WriteSpec == WriteInit /\ [][WriteNext]_vars

\* ------------------------------------------------------- derived values
\* Events handed to the store's batch insert so far, in order.
Handed == Flatten(inserts)

\* events_ever_flushed
Flushed == SumLen(inserts)

IsPrefix(s, t) ==
    /\ Len(s) <= Len(t)
    /\ \A i \in 1..Len(s) : s[i] = t[i]

\* Position of an accepted event in the queue's insertion order.
PosIn(s, e) == CHOOSE i \in 1..Len(s) : s[i] = e

\* s lists accepted events, each once, in the order the queue accepted them.
InInsertionOrder(s) ==
    /\ Range(s) \subseteq Range(inserted)
    /\ \A i, j \in 1..Len(s) :
           i < j => PosIn(inserted, s[i]) < PosIn(inserted, s[j])

\* Steps of one handler's Enqueue call: its select, and its return.
EnqueueSelect(h) == hpc[h] = "scan" /\ hpc'[h] \in {"sent", "full"}
EnqueueReturns(h) == hpc[h] \in {"sent", "full"} /\ hpc'[h] = "scan"

\* The batcher loop receives a tick; a flush hands its slice to WriteBatch.
TickReceived == tickPending /\ ~tickPending'
FlushTaken == bpc = "flush" /\ bpc' = "write"

\* No event has left the queue yet.
NoDequeueYet == buffer = <<>> /\ batch = <<>> /\ inserts = <<>>

\* No Enqueue call is between its select and its counter update.
NoEnqueueMidCall == \A h \in Handlers : hpc[h] \notin {"sent", "full"}

\* No ingest request in flight, batcher buffer empty, no flush in progress.
Quiescent ==
    /\ \A h \in Handlers : hpc[h] = "idle"
    /\ buffer = <<>>
    /\ bpc \in {"run", "done"}

\* ------------------------------------------------------------- claims
\* C1: tail-drop on overflow.  An Enqueue whose select runs while the queue
\* holds QueueCap events discards the arriving event: the queued events, their
\* order, pending and enqueued are unchanged by the call, and its return adds
\* exactly 1 to dropped.  After QueueCap successful enqueues and one more
\* with no dequeue in between, pending = QueueCap and dropped = 1.
C1_TailDrop ==
    /\ [][\A h \in Handlers :
            /\ (EnqueueSelect(h) /\ Len(queue) = QueueCap)
                 => /\ hpc'[h] = "full"
                    /\ queue' = queue
                    /\ inserted' = inserted
                    /\ enqueued' = enqueued
            /\ (EnqueueReturns(h) /\ hpc[h] = "full")
                 => /\ dropped' = dropped + 1
                    /\ queue' = queue
                    /\ enqueued' = enqueued]_vars
    /\ [](  (NoDequeueYet /\ NoEnqueueMidCall /\ nextId = QueueCap + 2)
          => (Len(queue) = QueueCap /\ dropped = 1 /\ enqueued = QueueCap
              /\ queue = inserted))

C1_Witness ==
    /\ NoDequeueYet /\ NoEnqueueMidCall
    /\ nextId = QueueCap + 2
    /\ Len(queue) = QueueCap /\ dropped = 1

\* C2: enqueue never blocks.  A handler that has a valid event in hand can
\* always run Enqueue's select, and an Enqueue past its select can always
\* return, whatever the other handlers and the batcher are doing; the select
\* either inserts the event or discards it; whenever the queue has room (so
\* also right after the batcher took an event from a full queue) it inserts,
\* and the return then adds 1 to enqueued.
C2_NonBlocking ==
    /\ [](\A h \in Handlers :
            /\ (hpc[h] = "scan" /\ lineNum[h] < MaxLines /\ nextId <= MaxEvents)
                 => ENABLED ScanEvent(h)
            /\ hpc[h] \in {"sent", "full"} => ENABLED EnqueueReturn(h))
    /\ [][\A h \in Handlers :
            /\ (EnqueueSelect(h) /\ Len(queue) < QueueCap)
                 => /\ hpc'[h] = "sent"
                    /\ queue' = Append(queue, nextId)
            /\ (EnqueueReturns(h) /\ hpc[h] = "sent")
                 => enqueued' = enqueued + 1]_vars

\* The batcher is inside the store insert, the queue is full, and an Enqueue
\* call has just run its select and found it full.
C2_Witness ==
    /\ bpc = "write" /\ batch # <<>>
    /\ Len(queue) = QueueCap
    /\ \E h \in Handlers : hpc[h] = "full"

C5_Counters ==
    /\ [][enqueued' >= enqueued /\ dropped' >= dropped]_vars
    /\ [](health # NoHealth
            => /\ health = <<enqueued, dropped, Len(queue)>>
               /\ health[3] \in 0..QueueCap)
    /\ [](Stats[3] = Len(queue) /\ Stats[3] \in 0..QueueCap)

C5_Witness ==
    /\ health # NoHealth
    /\ health[3] = QueueCap /\ health[2] >= 1 /\ health[1] > QueueCap

\* C6: FIFO end to end.  The events handed to the store's batch insert,
\* followed by those of the flush in progress, the buffer and the queue, are
\* the accepted events in insertion order; the rows of the batches sent are in
\* insertion order too, within a batch and from batch to batch.
C6_FIFO ==
    /\ Handed \o batch \o buffer \o queue = inserted
    /\ IsPrefix(Handed, inserted)
    /\ InInsertionOrder(Flatten(sent))

C6_Witness ==
    /\ Len(inserts) >= 2
    /\ Len(sent) >= 2
    /\ \E k \in 1..Len(sent) : Len(sent[k]) >= 2

C8_TimerFlush ==
    /\ [][/\ (TickReceived /\ buffer # <<>>)
               => (bpc' = "flush" /\ buffer' = buffer)
          /\ (TickReceived /\ buffer = <<>>)
               => (bpc' = "run" /\ UNCHANGED <<buffer, batch, inserts, sent>>)
          /\ FlushTaken => (batch' = buffer /\ buffer' = <<>>)
          /\ (bpc = "write" /\ bpc' # "write" /\ batch # <<>>)
               => inserts' = Append(inserts, batch)
          /\ (tickPending /\ bpc \in {"flush", "write"}) => tickPending'
         ]_vars
    /\ []((bpc \in {"flush", "write"} /\ ~tickPending) => ENABLED Tick)

\* A flush in progress that the ticker triggered (fewer than BatchSize events,
\* not the shutdown flush), with the tick that fired meanwhile still pending.
C8_Witness ==
    /\ bpc = "write" /\ bret = "run"
    /\ Len(batch) >= 1 /\ Len(batch) < BatchSize
    /\ buffer = <<>>
    /\ tickPending

\* C9: eventual flush.  Under fair scheduling of the batcher, the ticker and
\* the store call, every event the queue accepted is eventually handed to the
\* store's batch insert; an event that is in the buffer when a tick is
\* received is in the batch of the flush that tick starts.
C9_EventuallyFlushed ==
    /\ \A i \in 1..MaxEvents :
           (i \in Range(inserted)) ~> (i \in Range(Handed))
    /\ [][/\ (TickReceived /\ buffer # <<>>)
               => (bpc' = "flush" /\ buffer' = buffer)
          /\ FlushTaken => Range(buffer) \subseteq Range(batch')
          /\ (bpc = "write" /\ bpc' # "write")
               => Range(batch) \subseteq Range(Handed')]_vars

\* An event waits in the buffer and a tick has fired.
C9_Witness ==
    /\ bpc = "run" /\ ~closed
    /\ buffer # <<>> /\ tickPending
    /\ \E i \in Range(buffer) : i \notin Range(Handed)

\* C10: drain on shutdown.  Once the queue is closed the batcher terminates,
\* and not before the queue is empty; when it has terminated the queue and the
\* buffer are empty and every accepted event has been handed to the store's
\* batch insert.
C10_Drain ==
    /\ [](bpc = "done"
            => /\ closed
               /\ queue = <<>> /\ buffer = <<>> /\ batch = <<>>
               /\ Range(inserted) \subseteq Range(Handed)
               /\ Len(Handed) = Len(inserted))
    /\ [][(bret # "done" /\ bret' = "done") => (closed /\ queue = <<>>)]_vars
    /\ closed ~> (bpc = "done")

\* The batcher has terminated after flushing several batches, the last of
\* them the remainder left in the buffer.
C10_Witness ==
    /\ bpc = "done"
    /\ Len(inserts) >= 2
    /\ Len(inserts[Len(inserts)]) < BatchSize
    /\ Len(inserted) >= 3

\* A handler calls enqueue: it leaves the scan loop holding a parsed event.
EnqueueCall(h) ==
    hpc[h] = "scan" /\ hpc'[h] # "scan" /\ nextId' = nextId + 1

\* A request is accepted: its handler starts.
RequestAccepted(h) == hpc[h] = "idle" /\ hpc'[h] # "idle"

AllIdle == \A h \in Handlers : hpc[h] = "idle"

WriteBatchReturns == bpc = "write" /\ (bpc' # "write" \/ inserts' # inserts)
WriteBatchFails == WriteBatchReturns /\ batch # <<>> /\ sent' = sent

NoDuplicates(s) == \A i, j \in 1..Len(s) : i # j => s[i] # s[j]

\* C13: flush failure drops the batch.  When WriteBatch returns an error the
\* batcher discards the batch: its events go back neither to the queue nor to
\* the buffer and are in no later batch; nothing is reported to main or to an
\* HTTP client; the loop continues where the flush was triggered, so an event
\* waiting in the queue can still be dequeued.
C13_FlushFailure ==
    /\ [][/\ WriteBatchFails
               => /\ batch' = <<>>
                  /\ buffer' = buffer /\ queue' = queue
                  /\ bpc' = bret
                  /\ UNCHANGED <<mpc, closed, hpc, enqueued, dropped>>
                  /\ resp' = NoResp /\ health' = NoHealth
          /\ WriteBatchReturns => (batch' = <<>> /\ bpc' = bret)]_vars
    /\ [](/\ NoDuplicates(Handed \o batch \o buffer \o queue)
          /\ (bpc = "run" /\ queue # <<>>) => ENABLED BatcherDequeue
          /\ bpc = "done" => closed)

\* An insert failed before Send, and a batch flushed after it was sent.
C13_Witness ==
    \E i, j \in 1..Len(inserts) :
        /\ i < j
        /\ \A k \in 1..Len(sent) : sent[k] # inserts[i]
        /\ \E k \in 1..Len(sent) : sent[k] = inserts[j]

CloseCalled == closeCalls' = closeCalls + 1

\* C15 as stated: Close before any successful Connect returns ok without
\* touching a connection; a second and later Close in a row has the effect of
\* the first alone: the driver connection is closed at most once.  (The
\* result of a repeated Close is whatever the driver returns for it, and is
\* left out of the statement.)
C15_Original ==
    /\ [][/\ (CloseCalled /\ Conn = 0)
               => (closeRet' = "nil" /\ closes' = closes)
          /\ (CloseCalled /\ closeCalls >= 1) => closes' = closes]_vars
    /\ [](closes <= 1)

\* The part of C15 that holds: Close with Conn nil returns nil and calls
\* nothing.
C15_NotConnected ==
    [][(CloseCalled /\ Conn = 0)
          => (closeRet' = "nil" /\ closes' = closes /\ Conn' = 0)]_vars

\* Ids that have entered the queue and wherever they went from there.
InPipeline ==
    Range(queue) \cup Range(buffer) \cup Range(batch) \cup Range(Handed)
        \cup Range(Flatten(sent)) \cup Range(inserted)

\* A handler answers 400: the line it scanned failed to parse or validate.
Rejects(h) ==
    hpc[h] = "scan" /\ resp' # NoResp /\ resp'[1] = h /\ resp'[2] = 400

\* C16: only validated events reach the store.  Every event in the queue, in
\* the buffer, in a batch given to WriteBatch or in its rows is one for which
\* Validate returned nil in the handler, before the enqueue; the step that
\* rejects a line leaves the queue as it was.
C16_OnlyValidated ==
    /\ [](InPipeline \subseteq validated)
    /\ [][\A h \in Handlers :
            /\ Rejects(h)
                 => (queue' = queue /\ inserted' = inserted
                     /\ nextId' = nextId /\ UNCHANGED <<enqueued, dropped>>)
            /\ EnqueueSelect(h) => nextId \in validated']_vars

\* A line has just been rejected while events accepted earlier have reached
\* the store.
C16_Witness ==
    /\ resp # NoResp /\ resp[2] = 400
    /\ sent # <<>>
    /\ queue # <<>>

\* The UUID syntax of the claim: five groups of 8, 4, 4, 4 and 12 hexadecimal
\* digits, upper or lower case, separated by single hyphens.
GroupEnds == <<8, 13, 18, 23, 36>>

IsUuidSyntax(s) ==
    /\ Len(s) = 36
    /\ \A g \in 1..5 :
          LET from == IF g = 1 THEN 1 ELSE GroupEnds[g - 1] + 2
          IN  /\ \A i \in from..GroupEnds[g] : s[i] \in HexDigits
              /\ g < 5 => s[GroupEnds[g] + 1] = "-"

\* The events the claim has Validate accept.
ValidEvent(l) ==
    /\ l.timestamp # 0
    /\ l.service # ""
    /\ l.name # ""
    /\ \A id \in {l.job_id, l.request_id, l.trace_id, l.user_id} :
          id = <<>> \/ IsUuidSyntax(id)

\* C17 as stated: Validate returns ok exactly for the events with a non-zero
\* timestamp, non-empty service and name, and each of job_id, request_id,
\* trace_id and user_id empty or in UUID syntax.
C17_Original ==
    (verr # "none" /\ line.json) => (verr = "nil" <=> ValidEvent(line))

\* What Validate does: the same with user_id left out.
C17_WithoutUserId ==
    (verr # "none" /\ line.json)
        => (verr = "nil" <=> ValidEvent([line EXCEPT !.user_id = <<>>]))

\* A token that fails JSON parsing or validation.
BadToken(kind) == kind # "empty" /\ LineError(LineOf(kind)) # "nil"

\* The body has a bad line, and k is the first.
FirstBad(k) ==
    /\ k \in 1..Len(body)
    /\ BadToken(body[k])
    /\ \A i \in 1..(k - 1) : ~BadToken(body[i])

\* The non-empty lines before line k, in order.
RECURSIVE NonEmptyBefore(_)
NonEmptyBefore(k) ==
    IF k <= 1 THEN <<>>
    ELSE IF body[k - 1] = "empty"
            THEN NonEmptyBefore(k - 1)
            ELSE Append(NonEmptyBefore(k - 1), k - 1)

\* C18: stop at the first bad line.  When the first line that fails parsing
\* or validation is line k, counting empty lines, the request ends with 400
\* and a message naming line k; the valid non-empty lines before k have been
\* passed to enqueue once each, in order; no line after k is scanned or
\* enqueued; and a request never ends with 200 when its body has a bad line.
C18_FirstBadLine ==
    /\ [](\A k \in 1..MaxBody :
            FirstBad(k)
               => /\ pos <= k
                  /\ IsPrefix(calls, NonEmptyBefore(k))
                  /\ code \in {0, 400}
                  /\ code = 400
                        => /\ errLine = k /\ pos = k
                           /\ calls = NonEmptyBefore(k)
                           /\ accepted = Len(calls))
    /\ [](errLine # 0 => (code = 400 /\ FirstBad(errLine)))
    /\ [][code # 0 => UNCHANGED <<pos, calls, accepted, code, errLine>>]_vars

\* The request ended at line 3, after an empty line and a valid one, with a
\* line left unscanned.
C18_Witness ==
    /\ code = 400 /\ errLine = 3
    /\ body[1] = "empty" /\ body[2] = "good"
    /\ Len(body) = 4
    /\ calls = <<2>>

\* C19 as stated: a request whose body exceeds the 10 MiB limit ends with
\* status 413.  It is read here on the requests that fail for their size
\* alone, no line scanned before the cut being a bad one.
C19_Original ==
    (tooLarge /\ code # 0 /\ errLine = 0) => code = 413

\* What the handler does instead: every request whose body exceeds the limit
\* ends with 400, and those whose scanned lines were all valid have enqueued
\* them before.
C19_BadRequest ==
    (tooLarge /\ code # 0) => code = 400

\* The allow-list of the claim.
AllowList ==
    {"service", "env", "job_id", "request_id", "trace_id", "user_id", "name",
     "level"}

OffList(f) == ~f.IsData /\ f.Field \notin AllowList

RECURSIVE DropOffList(_)
DropOffList(fs) ==
    IF fs = <<>> THEN <<>>
    ELSE IF OffList(Head(fs))
            THEN DropOffList(Tail(fs))
            ELSE <<Head(fs)>> \o DropOffList(Tail(fs))

RECURSIVE CountArgs(_)
CountArgs(parts) ==
    IF parts = <<>> THEN 0 ELSE Len(Head(parts).args) + CountArgs(Tail(parts))

\* C20: column allow-list.  A non-data filter whose field is not on the
\* allow-list adds no WHERE part and no argument and raises no error: the
\* query built is the one built from the same parameters without that filter,
\* and one made of such filters alone has no part but the bounds on
\* timestamp.  Every column a WHERE part is a condition on is on the
\* allow-list or is timestamp (the parts of data filters are expressions over
\* JSONExtractString(data, ...), not conditions on a column).
C20_AllowList ==
    built =>
        /\ where = applyFilters(<<>>, [params EXCEPT
                                          !.Filters = DropOffList(@)])
        /\ CountArgs(where)
             = CountArgs(applyFilters(<<>>, [params EXCEPT
                                                !.Filters = DropOffList(@)]))
        /\ (\A i \in 1..Len(params.Filters) : OffList(params.Filters[i]))
              => \A i \in 1..Len(where) : where[i].column = "timestamp"
        /\ \A i \in 1..Len(where) :
              where[i].part = "column"
                 => where[i].column \in AllowList \cup {"timestamp"}

\* A filter on a name that is no column, followed by one on user_id:
\* the query has the condition on user_id and the lower bound on timestamp.
C20_Witness ==
    /\ built
    /\ Len(params.Filters) = 2
    /\ params.Filters[1].Field = "name; DROP TABLE events"
    /\ ~params.Filters[1].IsData
    /\ params.Filters[2].Field = "user_id" /\ ~params.Filters[2].IsData
    /\ params.Filters[2].Operator = "eq"
    /\ ~IsZero(params.From) /\ IsZero(params.To)
    /\ Len(where) = 2
    /\ where[1].column = "user_id"

\* The key without its data. prefix, and the operators whose text follows the
\* last "__" of it.
KeyBody ==
    TrimPrefix(fkey, DataPrefix)

KeyOperators ==
    {x \in OperatorTexts :
        /\ Len(KeyBody) >= Len(x) + 2
        /\ SubSeq(KeyBody, Len(KeyBody) - Len(x) - 1, Len(KeyBody))
              = OperatorSeparator \o x}

\* The field of a key F__op: what precedes the "__" before the operator.
KeyField(x) ==
    SubSeq(KeyBody, 1, Len(KeyBody) - Len(x) - 2)

\* C22: filter-key grammar [data.]<field>[__<op>].  A key F__op with op one
\* of the ten operators yields field F and operator op; a key with no "__"
\* suffix, or whose suffix after the last "__" is no operator, yields the
\* whole key as the field, with eq; a data. prefix sets is_data and is not
\* part of the field.
C22_Original ==
    fres # <<>> =>
        /\ fres[3] = HasPrefix(fkey, DataPrefix)
        /\ IF KeyOperators # {}
              THEN \E x \in KeyOperators :
                      fres[1] = Join(KeyField(x)) /\ fres[2] = Join(x)
              ELSE fres[1] = Join(KeyBody) /\ fres[2] = "eq"

\* The same for the keys whose field holds no "__" and does not end in "_".
C22_PlainField ==
    (/\ fres # <<>>
     /\ \A x \in KeyOperators :
           /\ Index(KeyField(x), OperatorSeparator) = 0
           /\ KeyField(x) # <<>> => KeyField(x)[Len(KeyField(x))] # "_")
        => C22_Original

\* The characters [A-Za-z0-9_.-] a JSON key may hold.
KeyCharset ==
    {"A", "B", "C", "D", "E", "F", "G", "H", "I", "J", "K", "L", "M",
     "N", "O", "P", "Q", "R", "S", "T", "U", "V", "W", "X", "Y", "Z",
     "a", "b", "c", "d", "e", "f", "g", "h", "i", "j", "k", "l", "m",
     "n", "o", "p", "q", "r", "s", "t", "u", "v", "w", "x", "y", "z",
     "0", "1", "2", "3", "4", "5", "6", "7", "8", "9", "_", ".", "-"}

\* The pieces of a statement's text that lie inside JSONExtractString(data,
\* '...'): the characters of the keys embedded in it.
EmbeddedKeyChars(text) ==
    {text[i] : i \in {n \in 1..Len(text) :
                        /\ text[n] \notin {"JSONExtractString(data, '", "')"}
                        /\ \E m \in 1..(n - 1) :
                              /\ text[m] = "JSONExtractString(data, '"
                              /\ \A x \in (m + 1)..n : text[x] # "')"}}

\* The data filters of the request whose key holds a character outside the
\* set.
OffCharsetKeys ==
    {k \in DOMAIN req.query :
        /\ Join(k) \notin reservedParams
        /\ HasPrefix(k, DataPrefix)
        /\ \E c \in Range(FieldChars(parseFilterKey(k)[1], req.query)) :
              c \notin KeyCharset}

\* C21: JSON key gate.  Every key embedded in JSONExtractString(data, 'K') of
\* a statement passed to the store consists of characters of [A-Za-z0-9_.-]
\* only, and a request with a data filter whose key holds any other character
\* is answered 400 with no statement passed to the store.
C21_Original ==
    httpStatus # 0 =>
        /\ \A i \in 1..Len(issued) :
              EmbeddedKeyChars(issued[i].text) \subseteq KeyCharset
        /\ OffCharsetKeys # {} => (httpStatus = 400 /\ issued = <<>>)

\* The same for the requests whose data filter keys are within the set.
C21_KeysWithinCharset ==
    (httpStatus # 0 /\ OffCharsetKeys = {}) =>
        \A i \in 1..Len(issued) :
           EmbeddedKeyChars(issued[i].text) \subseteq KeyCharset

\* The keys of the request that are none of from, to, limit, offset, key.
FilterKeysOf(q) ==
    {k \in DOMAIN q : Join(k) \notin {"from", "to", "limit", "offset", "key"}}

\* C23: the query-string keys from, to, limit, offset and key never produce a
\* filter; every other key with at least one value produces exactly one
\* filter, built from its first value (comma-split into a list when the
\* operator is in).
C23_OneFilterPerKey ==
    httpStatus # 0 =>
        \E order \in Orders(FilterKeysOf(req.query)) :
           /\ Len(parsed.Filters) = Len(order)
           /\ \A i \in 1..Len(order) :
                 LET f == parsed.Filters[i]
                     first == req.query[order[i]][1]
                 IN  /\ f.Field = parseFilterKey(order[i])[1]
                     /\ f.IsData = parseFilterKey(order[i])[3]
                     /\ IF f.Operator = "in"
                           THEN /\ f.Value[1] = "list"
                                /\ Len(f.Value[2])
                                      = Len(Split(first, <<",">>))
                                /\ \A j \in 1..Len(f.Value[2]) :
                                      f.Value[2][j]
                                         = Join(Split(first, <<",">>)[j])
                           ELSE f.Value = <<"s", Join(first)>>

\* A search with limit=7 and service given twice: one filter, on service,
\* with the first of the two values.
C23_Witness ==
    /\ httpStatus = 200
    /\ Cardinality(DOMAIN req.query) = 2
    /\ Get(req.query, "limit") = <<"7">>
    /\ \E k \in DOMAIN req.query :
          /\ Join(k) = "service"
          /\ Len(req.query[k]) = 2
          /\ req.query[k][1] # req.query[k][2]
          /\ Len(parsed.Filters) = 1
          /\ parsed.Filters[1].Field = "service"
          /\ parsed.Filters[1].Value = <<"s", Join(req.query[k][1])>>

\* A search with level__in=a,b: the filter's value is the list a, b.
C23_WitnessList ==
    /\ httpStatus = 200
    /\ \E i \in 1..Len(parsed.Filters) :
          /\ parsed.Filters[i].Field = "level"
          /\ parsed.Filters[i].Operator = "in"
          /\ parsed.Filters[i].Value = <<"list", <<"a", "b">>>>

\* The query with every filter value replaced by the empty string, a list by
\* as many empty strings.
BlankValues(p) ==
    [p EXCEPT !.Filters =
        [i \in DOMAIN p.Filters |->
            [p.Filters[i] EXCEPT !.Value =
                IF p.Filters[i].Value[1] = "list"
                   THEN <<"list", [j \in DOMAIN p.Filters[i].Value[2] |-> ""]>>
                   ELSE <<"s", "">>]]]

\* The statements QueryEvents builds for a query, the store answering.
CompiledEvents(p) ==
    QueryEvents(p, req.query, <<"ok", <<>>, 0>>).issued

\* C24: filter values never reach the SQL text.  Two queries whose filters
\* have the same fields, operators and is_data flags (and the same number of
\* values for in) but different values compile to the identical SQL string,
\* differing only in the bound argument list; this holds for values with
\* quotes, semicolons or comment markers.  Every statement of a search has
\* the text, and as many arguments, as the statement of the same search with
\* its values blanked.
C24_ValuesOnlyBound ==
    httpStatus # 0 =>
        \A i \in 1..Len(issued) :
           /\ issued[i].text = CompiledEvents(BlankValues(parsed))[i].text
           /\ Len(issued[i].args)
                 = Len(CompiledEvents(BlankValues(parsed))[i].args)

\* A search with data.a=';-- and service=';--: both statements were passed
\* to the store, the value bound twice.
C24_Witness ==
    /\ httpStatus = 200
    /\ Len(issued) = 2
    /\ Len(parsed.Filters) = 2
    /\ \E i, j \in 1..2 :
          /\ parsed.Filters[i].IsData /\ parsed.Filters[i].Field = "a"
          /\ ~parsed.Filters[j].IsData /\ parsed.Filters[j].Field = "service"
    /\ \A i \in 1..2 : parsed.Filters[i].Value = <<"s", "';--">>
    /\ issued[2].args = <<<<"s", "';--">>, <<"s", "';--">>>>

\* The limit the request asks for: <<FALSE, 0>> when the parameter is absent,
\* empty or no integer.
RequestedLimit ==
    ParseInt(Get(req.query, "limit"))

\* C25: events search limit clamp.  The LIMIT sent to the store is 100 when
\* the requested limit is absent, zero or negative, 1000 when the requested
\* limit is greater than 1000, and the requested limit otherwise, so it
\* always lies in [1, 1000].
C25_LimitClamp ==
    \A i \in 1..Len(issued) :
       issued[i].limit # <<>> =>
          /\ issued[i].limit[1][1] = "uint64"
          /\ issued[i].limit[1][2] \in 1..1000
          /\ issued[i].limit[1][2] =
                IF ~RequestedLimit[1] \/ RequestedLimit[2] <= 0 THEN 100
                ELSE IF RequestedLimit[2] > 1000 THEN 1000
                ELSE RequestedLimit[2]

\* limit=5000: the data query is sent with LIMIT 1000.
C25_Witness ==
    /\ httpStatus = 200
    /\ Get(req.query, "limit") = <<"5", "0", "0", "0">>
    /\ Len(issued) = 2
    /\ issued[2].limit = <<<<"uint64", 1000>>>>

\* limit=-5, limit=50 and no limit: LIMIT 100, LIMIT 50, LIMIT 100.
C25_WitnessNegative ==
    /\ httpStatus = 200
    /\ Get(req.query, "limit") = <<"-", "5">>
    /\ issued[2].limit = <<<<"uint64", 100>>>>

C25_WitnessWithin ==
    /\ httpStatus = 200
    /\ Get(req.query, "limit") = <<"5", "0">>
    /\ issued[2].limit = <<<<"uint64", 50>>>>

\* The offset the request asks for, and the limit buildPaginationURLs
\* works with: the requested limit, 100 when it is absent or not positive.
RequestedOffset ==
    IF ParseInt(Get(req.query, "offset"))[1]
       THEN ParseInt(Get(req.query, "offset"))[2]
       ELSE 0

LinkLimit ==
    IF ~RequestedLimit[1] \/ RequestedLimit[2] <= 0 THEN 100
    ELSE RequestedLimit[2]

\* A link to the path of the request with the request's parameters, but for
\* offset and limit, which are the given ones.
LinkCarries(link, offset, limit) ==
    /\ Len(link) = 2
    /\ link[1] = req.path
    /\ DOMAIN link[2] = (DOMAIN req.query) \cup {KeyOffset, KeyLimit}
    /\ \A k \in (DOMAIN req.query) \ {KeyOffset, KeyLimit} :
          link[2][k] = req.query[k]
    /\ Len(link[2][KeyOffset]) = 1
    /\ ParseInt(link[2][KeyOffset][1]) = <<TRUE, offset>>
    /\ Len(link[2][KeyLimit]) = 1
    /\ ParseInt(link[2][KeyLimit][1]) = <<TRUE, limit>>

\* C26: pagination links.  A next link is produced exactly when offset +
\* limit < total and carries offset + limit; a previous link is produced
\* exactly when offset > 0 and carries max(0, offset - limit); both links keep
\* every other query parameter of the request unchanged and overwrite only
\* offset and limit.  limit is the limit of the request, 100 when absent or
\* not positive; total is the count of the response.
C26_PaginationLinks ==
    httpStatus = 200 =>
        /\ links.next # NoLink <=> RequestedOffset + LinkLimit < links.count
        /\ links.next # NoLink =>
              LinkCarries(links.next, RequestedOffset + LinkLimit, LinkLimit)
        /\ links.previous # NoLink <=> RequestedOffset > 0
        /\ links.previous # NoLink =>
              LinkCarries(links.previous,
                          IF RequestedOffset - LinkLimit < 0 THEN 0
                          ELSE RequestedOffset - LinkLimit,
                          LinkLimit)

\* offset=50&limit=1000&service=api&service=web of 1200 rows: next carries
\* offset 1050, previous offset 0 and limit 1000, both of them both values
\* of service.
C26_Witness ==
    /\ httpStatus = 200
    /\ links.count = 1200
    /\ Get(req.query, "offset") = <<"5", "0">>
    /\ Get(req.query, "limit") = <<"1", "0", "0", "0">>
    /\ \E k \in DOMAIN req.query :
          /\ Join(k) = "service"
          /\ Len(req.query[k]) = 2
          /\ links.next # NoLink
          /\ links.next[2][k] = req.query[k]
          /\ links.next[2][KeyOffset] = <<<<"1", "0", "5", "0">>>>
          /\ links.previous # NoLink
          /\ links.previous[2][k] = req.query[k]
          /\ links.previous[2][KeyOffset] = <<<<"0">>>>
          /\ links.previous[2][KeyLimit] = <<<<"1", "0", "0", "0">>>>

\* No offset and no limit of 100 rows: neither link.
C26_WitnessNoLinks ==
    /\ httpStatus = 200
    /\ links.count = 100
    /\ Get(req.query, "offset") = <<>>
    /\ Get(req.query, "limit") = <<>>
    /\ links.next = NoLink
    /\ links.previous = NoLink

\* The instant the claim gives a from or to text: <<TRUE, t>>, or <<FALSE,
\* zero>> when the text is neither RFC 3339 nor an integer.
FallbackTime(text) ==
    IF ParseRFC3339(text)[1] THEN <<TRUE, ParseRFC3339(text)[2]>>
    ELSE IF ParseInt(text)[1]
            THEN <<TRUE, <<719162 + ParseInt(text)[2] \div 86400,
                           ParseInt(text)[2] % 86400>>>>
            ELSE <<FALSE, <<0, 0>>>>

\* A statement's text has a condition on timestamp with the comparison.
HasTimeCondition(text, cmp) ==
    \E i \in 1..(Len(text) - 1) : text[i] = "timestamp" /\ text[i + 1] = cmp

\* C27: time input fallback.  A from or to value that parses as RFC 3339
\* becomes that instant; otherwise, if it parses as an integer it becomes
\* that many Unix seconds; otherwise the field is zero, the request is not
\* rejected, and no timestamp condition for that bound appears in the
\* emitted query.
C27_TimeFallback ==
    httpStatus # 0 =>
        /\ httpStatus # 400
        /\ parsed.From = FallbackTime(Get(req.query, "from"))[2]
        /\ parsed.To = FallbackTime(Get(req.query, "to"))[2]
        /\ ~FallbackTime(Get(req.query, "from"))[1] =>
              /\ issued # <<>>
              /\ \A i \in 1..Len(issued) :
                    ~HasTimeCondition(issued[i].text, " >= ")
        /\ ~FallbackTime(Get(req.query, "to"))[1] =>
              /\ issued # <<>>
              /\ \A i \in 1..Len(issued) :
                    ~HasTimeCondition(issued[i].text, " <= ")

\* from=10&to=yesterday: from is ten seconds after the epoch, to is zero; the
\* request is answered 200 and the query has the lower bound only.
C27_Witness ==
    /\ httpStatus = 200
    /\ Get(req.query, "from") = <<"1", "0">>
    /\ Get(req.query, "to") = <<"y", "e", "s", "t", "e", "r", "d", "a", "y">>
    /\ parsed.From = <<719162, 10>>
    /\ parsed.To = <<0, 0>>
    /\ Len(issued) = 2
    /\ HasTimeCondition(issued[2].text, " >= ")
    /\ ~HasTimeCondition(issued[2].text, " <= ")
    /\ issued[2].args = <<<<"t", <<719162, 10>>>>>>

\* from=2024-02-29T12:00:00Z: that instant.
C27_WitnessRFC3339 ==
    /\ httpStatus = 200
    /\ Len(Get(req.query, "from")) = 20
    /\ SubSeq(Get(req.query, "from"), 1, 10)
          = <<"2", "0", "2", "4", "-", "0", "2", "-", "2", "9">>
    /\ parsed.From = <<738944, 43200>>
    /\ HasTimeCondition(issued[1].text, " >= ")

\* The labels the operation is to accept.
AcceptedLabels ==
    {"service", "env", "user_id", "name", "level"}

\* The service returned an error the store gave it.
StoreFailed ==
    svcErr # <<>> /\ svcErr[1] = "query failed: "

\* C28: label allow-list.  The label-values operation accepts exactly the
\* labels service, env, user_id, name and level; any other label yields an
\* invalid-label error that is surfaced as HTTP 400 without issuing any query
\* to the store, while a store failure for an accepted label is surfaced as
\* 500.
C28_Original ==
    httpStatus # 0 =>
        IF req.label \in AcceptedLabels
           THEN /\ Len(issued) = 1
                /\ StoreFailed => httpStatus = 500
                /\ ~StoreFailed => httpStatus = 200
           ELSE /\ httpStatus = 400
                /\ issued = <<>>
                /\ svcErr # <<>> /\ svcErr[1] = "invalid label"

\* The same, for the store failures whose message does not hold the words
\* "invalid label".
C28_OtherMessages ==
    (\A i \in 1..Len(svcErr) : i > 1 => svcErr[i] # "invalid label")
        => C28_Original

\* The label job_id with a filter: 400 and nothing passed to the store.
C28_WitnessRejected ==
    /\ httpStatus = 400
    /\ req.label = "job_id"
    /\ Len(parsed.Filters) = 1
    /\ issued = <<>>

\* The label service, the store failing with a message that holds the words:
\* the answer is 400.
C28_WitnessStoreFailure ==
    /\ req.label = "service"
    /\ StoreFailed
    /\ Len(issued) = 1
    /\ httpStatus = 400

\* The conditions of a statement: the pieces of its text after WHERE, up to
\* ORDER BY or the end.
WhereText(text) ==
    LET from == {i \in 1..Len(text) : text[i] = " WHERE "}
        to == {i \in 1..Len(text) : text[i] = " ORDER BY "}
    IN  IF from = {} THEN <<>>
        ELSE SubSeq(text, (CHOOSE i \in from : TRUE) + 1,
                    IF to = {} THEN Len(text)
                    ELSE (CHOOSE i \in to : TRUE) - 1)

\* The filters of the request that are not column filters on the label, and
\* the count statement of the events search with those filters.
FiltersNotOn(label) ==
    LET Keep(f) == f.IsData \/ f.Field # label
    IN  SelectSeq(parsed.Filters, Keep)

SearchWithout(label) ==
    QueryEvents([parsed EXCEPT !.Filters = FiltersNotOn(label)], req.query,
                <<"ok", <<>>, 0>>).issued[1]

\* C29: label self-filter exclusion.  When compiling label values for label
\* L, every non-data filter whose field is L is left out of the WHERE clause
\* whatever its operator, and every other filter (column or data) and the
\* from/to bounds are applied exactly as in events search.
C29_SelfFilterExcluded ==
    (httpStatus # 0 /\ req.label \in AcceptedLabels) =>
        /\ Len(issued) = 1
        /\ WhereText(issued[1].text)
              = WhereText(SearchWithout(req.label).text)
        /\ issued[1].args = SearchWithout(req.label).args
        /\ \A i \in 1..Len(issued[1].text) :
              issued[1].text[i] = req.label =>
                 \/ issued[1].text[i - 1] = "DISTINCT "
                 \/ issued[1].text[i - 1] = " ORDER BY "

\* Label service with service__neq=api and data.service=api: the statement
\* has the condition on the data key service alone.
C29_Witness ==
    /\ httpStatus = 200
    /\ req.label = "service"
    /\ Len(parsed.Filters) = 2
    /\ \E i, j \in 1..2 :
          /\ parsed.Filters[i].Field = "service"
          /\ parsed.Filters[i].Operator = "neq"
          /\ ~parsed.Filters[i].IsData
          /\ parsed.Filters[j].Field = "service"
          /\ parsed.Filters[j].IsData
    /\ Len(issued[1].args) = 1
    /\ WhereText(issued[1].text)[1] = "JSONExtractString(data, '"

\* Label service with level=api and from=10: both applied.
C29_WitnessOthers ==
    /\ httpStatus = 200
    /\ req.label = "service"
    /\ Len(parsed.Filters) = 1
    /\ parsed.Filters[1].Field = "level"
    /\ ~IsZero(parsed.From)
    /\ WhereText(issued[1].text)
          = <<"level", " = ", "?", " AND ", "timestamp", " >= ", "?">>

\* The ? placeholders of a statement's text, in order.
PlaceholdersOf(text) ==
    {i \in 1..Len(text) : text[i] = "?"}

\* The arguments of the filters and bounds of the request, in the order the
\* events search binds them.
FilterArgs ==
    QueryEvents(parsed, req.query, <<"ok", <<>>, 0>>).issued[1].args

\* C30: data values.  An empty key is rejected (HTTP 400) before any query
\* is issued; for a non-empty key the bound argument list starts with the key
\* followed by the filter arguments in the order their placeholders appear in
\* the SQL text, so the number of arguments equals the number of ?
\* placeholders and each argument lines up with its own placeholder.
C30_Original ==
    (httpStatus # 0 /\ req.path = "/v1/data/values") =>
        IF Get(req.query, "key") = <<>>
           THEN httpStatus = 400 /\ issued = <<>>
           ELSE /\ Len(issued) = 1
                /\ issued[1].args
                      = <<<<"s", Join(Get(req.query, "key"))>>>> \o FilterArgs
                /\ Cardinality(PlaceholdersOf(issued[1].text))
                      = Len(issued[1].args)
                /\ \E i \in PlaceholdersOf(issued[1].text) :
                      /\ \A j \in PlaceholdersOf(issued[1].text) : i <= j
                      /\ issued[1].text[i - 1]
                            = "DISTINCT JSONExtractString(data, "

\* The same for the requests none of whose keys holds a question mark.
C30_KeysWithoutMark ==
    (\A k \in DOMAIN req.query : \A i \in 1..Len(k) : k[i] # "?")
        => C30_Original

\* key=method with data.a__gt=5 and from=10: three placeholders, and the
\* arguments method, 5 and the instant.
C30_Witness ==
    /\ httpStatus = 200
    /\ req.path = "/v1/data/values"
    /\ Get(req.query, "key") = <<"m", "e", "t", "h", "o", "d">>
    /\ Cardinality(PlaceholdersOf(issued[1].text)) = 3
    /\ issued[1].args
          = <<<<"s", "method">>, <<"s", "5">>, <<"t", <<719162, 10>>>>>>

\* key= (empty) beside a filter: 400, nothing passed to the store.
C30_WitnessEmptyKey ==
    /\ httpStatus = 400
    /\ req.path = "/v1/data/values"
    /\ \E k \in DOMAIN req.query : Join(k) = "key" /\ req.query[k] = <<<<>>>>
    /\ Cardinality(DOMAIN req.query) = 2
    /\ issued = <<>>

\* key=method with data.q?=x: the text has three question marks and the
\* statement two arguments.
C30_WitnessMark ==
    /\ httpStatus # 0
    /\ req.path = "/v1/data/values"
    /\ Len(issued) = 1
    /\ Cardinality(PlaceholdersOf(issued[1].text)) = 3
    /\ issued[1].args = <<<<"s", "method">>, <<"s", "x">>>>

\* The points the store returned for the one series of the response, if any.
StoredPoints ==
    IF DOMAIN aout.rows = {} THEN <<>>
    ELSE aout.rows[CHOOSE n \in DOMAIN aout.rows : TRUE]

\* The points of a series are one per bucket start in [from, to], in order.
OnePointPerBucket(points) ==
    /\ \A i \in 1..Len(points) :
          /\ BucketStart(areq.interval, points[i].timestamp)
                = points[i].timestamp
          /\ areq.from <= points[i].timestamp
          /\ points[i].timestamp <= areq.to
    /\ \A i \in 1..(Len(points) - 1) :
          /\ points[i].timestamp < points[i + 1].timestamp
          /\ points[i + 1].timestamp
                = NextBucket(areq.interval, points[i].timestamp)
    /\ IF points = <<>>
          THEN NextBucket(areq.interval,
                          BucketStart(areq.interval, areq.from)) > areq.to
                  /\ BucketStart(areq.interval, areq.from) # areq.from
          ELSE /\ BucketStart(areq.interval, areq.from)
                     \in {points[1].timestamp,
                          BucketStart(areq.interval, points[1].timestamp - 1)}
               /\ NextBucket(areq.interval, points[Len(points)].timestamp)
                     > areq.to

\* C31: time-series zero-fill.  For a request with fill_zeros true and at
\* most one series, the returned data points contain exactly one point for
\* every bucket start of the requested interval inside [from, to], in
\* strictly increasing timestamp order, carrying the store's value for
\* buckets that have rows and value 0 for every bucket that has none.
C31_ZeroFill ==
    (/\ areq.op = "timeseries"
     /\ aout.status = 200
     /\ areq.fill_zeros
     /\ Cardinality(DOMAIN aout.rows) <= 1) =>
        /\ Cardinality(DOMAIN aout.data) = 1
        /\ DOMAIN aout.rows \subseteq DOMAIN aout.data
        /\ \A n \in DOMAIN aout.data :
              /\ OnePointPerBucket(aout.data[n])
              /\ \A i \in 1..Len(aout.data[n]) :
                    IF \E j \in 1..Len(StoredPoints) :
                          StoredPoints[j].timestamp
                             = aout.data[n][i].timestamp
                       THEN aout.data[n][i] \in Range(StoredPoints)
                       ELSE aout.data[n][i].value = 0
              /\ Range(StoredPoints) \subseteq Range(aout.data[n])

\* interval=hour, fill_zeros, from = H, to = H + 2 h, rows for H (3) and
\* H + 2 h (5): the three points H -> 3, H + 1 h -> 0, H + 2 h -> 5.
C31_Witness ==
    /\ aout.status = 200
    /\ areq.op = "timeseries"
    /\ areq.interval = "hour"
    /\ areq.fill_zeros
    /\ areq.to = areq.from + 7200
    /\ areq.group_by = <<>>
    /\ DOMAIN aout.rows = {""}
    /\ aout.rows[""] = <<[timestamp |-> areq.from, value |-> 3],
                         [timestamp |-> areq.from + 7200, value |-> 5]>>
    /\ aout.data[""] = <<[timestamp |-> areq.from, value |-> 3],
                         [timestamp |-> areq.from + 3600, value |-> 0],
                         [timestamp |-> areq.from + 7200, value |-> 5]>>

\* interval=month over sixty days with no rows at all: the three points
\* January, February and March 2024, each 0.
C31_WitnessMonths ==
    /\ aout.status = 200
    /\ areq.op = "timeseries"
    /\ areq.interval = "month"
    /\ areq.fill_zeros
    /\ DOMAIN aout.rows = {}
    /\ Len(aout.data[""]) = 3
    /\ aout.data[""][2] = [timestamp |-> areq.from + 31 * 86400, value |-> 0]
    /\ aout.data[""][3] = [timestamp |-> areq.from + 60 * 86400, value |-> 0]

\* The range of the request is longer than 90 days.
OverNinetyDays ==
    areq.to - areq.from > 90 * 24 * 3600

\* The range of the request holds more than 10 000 bucket starts of its
\* interval: the start 10 000 buckets after the first is within it.
OverTenThousandBuckets ==
    \E u \in {<<"minute", 60>>, <<"hour", 3600>>, <<"day", 24 * 3600>>,
              <<"week", 7 * 24 * 3600>>} :
       /\ areq.interval = u[1]
       /\ FirstBucket(areq.interval, areq.from) <= areq.to
       /\ (areq.to - FirstBucket(areq.interval, areq.from)) \div u[2] >= 10000

\* C32: time-series ceilings.  A time-series request whose [from, to] range
\* is longer than 90 days or would produce more than 10 000 buckets at the
\* requested interval is rejected with bad_request, and no SQL statement is
\* issued to the store for it.
C32_Ceilings ==
    (/\ areq.op = "timeseries"
     /\ aout.status # 0
     /\ OverNinetyDays \/ OverTenThousandBuckets) =>
        /\ aout.status = 400
        /\ aout.issued = <<>>

\* interval=minute over 10 000 minutes (10 001 buckets, under 90 days):
\* rejected, nothing issued.
C32_Witness ==
    /\ areq.op = "timeseries"
    /\ areq.interval = "minute"
    /\ areq.to - areq.from = 600000
    /\ ~OverNinetyDays
    /\ aout.status = 400
    /\ aout.issued = <<>>

\* interval=hour over 90 days and a second: rejected, nothing issued.
C32_WitnessRange ==
    /\ areq.op = "timeseries"
    /\ areq.interval = "hour"
    /\ OverNinetyDays /\ ~OverTenThousandBuckets
    /\ aout.status = 400
    /\ aout.issued = <<>>

\* interval=minute over 9 999 minutes (10 000 buckets): the statement is
\* issued.
C32_WitnessWithin ==
    /\ areq.op = "timeseries"
    /\ areq.interval = "minute"
    /\ areq.to - areq.from = 599940
    /\ aout.status = 200
    /\ Len(aout.issued) = 1

\* C33: compare auto-window.  When compare_from/compare_to are absent, the
\* previous window is [from - (to - from), from], i.e. it has the same
\* duration as [from, to] and ends where the current window begins; the
\* result has change = current - previous and change_percent = 0 whenever
\* previous = 0.
C33_AutoWindow ==
    (areq.op = "compare" /\ aout.status = 200) =>
        /\ Len(aout.issued) = 2
        /\ aout.issued[1].args = <<<<"t", areq.from>>, <<"t", areq.to>>>>
        /\ areq.compare = <<>> =>
              /\ aout.issued[2].args[2] = <<"t", areq.from>>
              /\ aout.issued[2].args[1][1] = "t"
              /\ areq.from - aout.issued[2].args[1][2] = areq.to - areq.from
        /\ aout.data.current = aout.rows[1]
        /\ aout.data.previous = aout.rows[2]
        /\ aout.data.change = aout.data.current - aout.data.previous
        /\ aout.data.previous = 0 =>
              /\ aout.data.change_percent[1] = 0
              /\ aout.data.change_percent[2] # 0

\* from = T, to = T + 1 h, no compare window, current 1523 and previous
\* 1342: the previous window is [T - 1 h, T], change is 181 and
\* change_percent 18100 / 1342, between 13.48 and 13.49.
C33_Witness ==
    /\ areq.op = "compare"
    /\ aout.status = 200
    /\ areq.compare = <<>>
    /\ areq.to = areq.from + 3600
    /\ aout.issued[2].args
          = <<<<"t", areq.from - 3600>>, <<"t", areq.from>>>>
    /\ aout.data.current = 1523 /\ aout.data.previous = 1342
    /\ aout.data.change = 181
    /\ aout.data.change_percent = <<18100, 1342>>
    /\ 1348 * 1342 <= 18100 * 100 /\ 18100 * 100 <= 1349 * 1342

\* Current 1523 and previous 0: change_percent is 0.
C33_WitnessZero ==
    /\ areq.op = "compare"
    /\ aout.status = 200
    /\ aout.data.current = 1523 /\ aout.data.previous = 0
    /\ aout.data.change = 1523
    /\ aout.data.change_percent = <<0, 1>>

\* C34: accepted count matches the queue.  For a successful ingest request
\* the N in the 200 response {"accepted": N} equals the number of that
\* request's events the queue actually took (the increase of the enqueued
\* counter caused by the request); an event that was tail-dropped because the
\* queue was full is not counted as accepted.  N is the handler's count when
\* it answers, so every step that adds to a handler's count adds as much to
\* enqueued, and none that drops an event adds to it.
C34_Original ==
    [][\A h \in Handlers :
          /\ (resp' # NoResp /\ resp'[1] = h /\ resp'[2] = 200)
                => resp'[3] = count[h]
          /\ count'[h] > count[h]
                => /\ enqueued' - enqueued = count'[h] - count[h]
                   /\ dropped' = dropped]_vars

\* N is the number of the request's events passed to Queue.Enqueue, taken
\* or dropped.
C34_CountsEveryCall ==
    [][\A h \in Handlers :
          /\ (resp' # NoResp /\ resp'[1] = h /\ resp'[2] = 200)
                => resp'[3] = count[h]
          /\ count'[h] > count[h]
                => (enqueued' - enqueued) + (dropped' - dropped)
                      = count'[h] - count[h]]_vars

\* A request is answered {"accepted": 1} with the queue full and its event
\* dropped: one event dropped, QueueCap taken.
C34_WitnessDropped ==
    /\ resp # NoResp
    /\ resp[2] = 200 /\ resp[3] = 1
    /\ dropped = 1
    /\ enqueued = QueueCap
    /\ Len(queue) = QueueCap
    /\ \A h \in Handlers : hpc[h] = "idle"

\* The LIMIT QueryEvents sent to the store with the data query.
AppliedLimit ==
    issued[2].limit[1][2]

\* C35: pagination uses the applied limit.  For every events search that is
\* answered, the limit written into the next and the previous link and used
\* for their offsets is the LIMIT QueryEvents sent to the store: a next link
\* is there exactly when offset + LIMIT < total, so that following next links
\* visits every row once.
C35_Original ==
    httpStatus = 200 =>
        /\ links.next # NoLink <=> RequestedOffset + AppliedLimit < links.count
        /\ links.next # NoLink =>
              LinkCarries(links.next, RequestedOffset + AppliedLimit,
                          AppliedLimit)
        /\ links.previous # NoLink =>
              LinkCarries(links.previous,
                          IF RequestedOffset - AppliedLimit < 0 THEN 0
                          ELSE RequestedOffset - AppliedLimit,
                          AppliedLimit)

\* What holds: the links use the applied limit whenever the requested limit
\* is at most 1000.
C35_WithinCeiling ==
    (httpStatus = 200 /\ LinkLimit <= 1000) =>
        /\ LinkLimit = AppliedLimit
        /\ links.next # NoLink <=> RequestedOffset + AppliedLimit < links.count
        /\ links.next # NoLink =>
              LinkCarries(links.next, RequestedOffset + AppliedLimit,
                          AppliedLimit)
        /\ links.previous # NoLink =>
              LinkCarries(links.previous,
                          IF RequestedOffset - AppliedLimit < 0 THEN 0
                          ELSE RequestedOffset - AppliedLimit,
                          AppliedLimit)

\* limit=5000 of 1200 rows: 1000 rows were asked of the store and no next
\* link is given, so the rows from the 1001st on are never reached.
C35_WitnessNoNext ==
    /\ httpStatus = 200
    /\ Get(req.query, "limit") = <<"5", "0", "0", "0">>
    /\ Get(req.query, "offset") = <<>>
    /\ links.count = 1200
    /\ AppliedLimit = 1000
    /\ links.next = NoLink

\* offset=50&limit=5000: the previous link carries limit 5000.
C35_WitnessPrevious ==
    /\ httpStatus = 200
    /\ Get(req.query, "limit") = <<"5", "0", "0", "0">>
    /\ Get(req.query, "offset") = <<"5", "0">>
    /\ AppliedLimit = 1000
    /\ links.previous # NoLink
    /\ links.previous[2][KeyLimit] = <<<<"5", "0", "0", "0">>>>

\* The conditions of a WHERE clause: its text cut at every " AND ".
RECURSIVE SplitAnd(_)
SplitAnd(w) ==
    LET cut == {i \in 1..Len(w) : w[i] = " AND "}
        c == CHOOSE i \in cut : \A j \in cut : i <= j
    IN  IF w = <<>> THEN <<>>
        ELSE IF cut = {} THEN <<w>>
        ELSE <<SubSeq(w, 1, c - 1)>> \o SplitAnd(SubSeq(w, c + 1, Len(w)))

\* What a filter is to add to the query by the operator table: nothing for a
\* data filter with operator in and for a field that is no column, one
\* condition otherwise, with one argument, or one per element of a list.
AddsCondition(f) ==
    IF f.IsData THEN f.Operator # "in" ELSE f.Field \in validColumns

ArgumentsOf(f) ==
    IF ~AddsCondition(f) THEN 0
    ELSE IF f.Value[1] = "list" THEN Len(f.Value[2])
    ELSE 1

RECURSIVE ConditionsBefore(_, _)
ConditionsBefore(fs, i) ==
    IF i = 0 THEN 0
    ELSE ConditionsBefore(fs, i - 1) + (IF AddsCondition(fs[i]) THEN 1 ELSE 0)

RECURSIVE ArgumentsBefore(_, _)
ArgumentsBefore(fs, i) ==
    IF i = 0 THEN 0
    ELSE ArgumentsBefore(fs, i - 1) + ArgumentsOf(fs[i])

BoundsOf(p) ==
    (IF IsZero(p.From) THEN 0 ELSE 1) + (IF IsZero(p.To) THEN 0 ELSE 1)

\* "?,?,?" with n placeholders, piece by piece.
InList(n) ==
    [i \in 1..(2 * n - 1) |-> IF i % 2 = 1 THEN "?" ELSE ","]

\* C36: operator in.  A data filter with operator in adds no condition and
\* no bound argument to the emitted query and raises no error, while a column
\* filter with operator in and a list value compiles to F IN (?,...) with one
\* placeholder per list element: every statement of a search has one
\* condition for each filter that is to add one and for each bound, as many
\* arguments as they are to bind, and at the place of a column filter with
\* operator in the condition F IN (?,...) and the elements of the list as its
\* arguments.
C36_OperatorIn ==
    httpStatus # 0 =>
        /\ httpStatus \in {200, 500}
        /\ httpStatus = 500 =>
              svcErr[1] \in {"count query failed: ", "query failed: "}
        /\ Len(issued) >= 1
        /\ \A s \in 1..Len(issued) :
              LET fs == parsed.Filters
                  conds == SplitAnd(WhereText(issued[s].text))
              IN  /\ Len(conds)
                        = ConditionsBefore(fs, Len(fs)) + BoundsOf(parsed)
                  /\ Len(issued[s].args)
                        = ArgumentsBefore(fs, Len(fs)) + BoundsOf(parsed)
                  /\ \A i \in 1..Len(fs) :
                        (~fs[i].IsData /\ fs[i].Operator = "in"
                            /\ fs[i].Value[1] = "list"
                            /\ AddsCondition(fs[i])) =>
                           LET n == Len(fs[i].Value[2])
                               at == ArgumentsBefore(fs, i - 1)
                           IN  /\ conds[ConditionsBefore(fs, i)]
                                     = <<fs[i].Field, " IN (">> \o InList(n)
                                          \o <<")">>
                               /\ \A j \in 1..n :
                                     issued[s].args[at + j]
                                        = <<"s", fs[i].Value[2][j]>>

\* data.k__in=a,b and level__in=a,b: the search is answered, and the only
\* condition of its statements is level IN (?,?) with the arguments a and b.
C36_Witness ==
    /\ httpStatus = 200
    /\ Len(parsed.Filters) = 2
    /\ \E i, j \in 1..2 :
          /\ parsed.Filters[i].IsData /\ parsed.Filters[i].Field = "k"
          /\ parsed.Filters[i].Operator = "in"
          /\ ~parsed.Filters[j].IsData /\ parsed.Filters[j].Field = "level"
          /\ parsed.Filters[j].Operator = "in"
    /\ Len(issued) = 2
    /\ \A s \in 1..2 :
          /\ WhereText(issued[s].text)
                = <<"level", " IN (", "?", ",", "?", ")">>
          /\ issued[s].args = <<<<"s", "a">>, <<"s", "b">>>>

\* data.k__in=a,b alone: the statements have no WHERE clause.
C36_WitnessDataOnly ==
    /\ httpStatus = 200
    /\ Len(parsed.Filters) = 1
    /\ parsed.Filters[1].IsData /\ parsed.Filters[1].Operator = "in"
    /\ \A s \in 1..Len(issued) :
          /\ WhereText(issued[s].text) = <<>>
          /\ issued[s].args = <<>>

\* C37: Connect changes the shared connection state only on success.  Conn
\* and Database are assigned together, once, in the step where the ping of an
\* attempt succeeds; during failed attempts and when Connect returns the
\* exhausted error both are what they were before the call.
C37_AssignedOnSuccess ==
    /\ [](cpc \in {"idle", "open", "ping", "sleep", "exhausted"}
             => (Conn = 0 /\ Database = ""))
    /\ [][/\ Conn' # Conn <=> (cpc = "ping" /\ cpc' = "ok")
          /\ Database' # Database <=> (cpc = "ping" /\ cpc' = "ok")
          /\ (cpc = "ping" /\ cpc' = "ok")
                => (Conn' = conn /\ Database' = "db" /\ ret' = <<"nil">>)
          /\ cpc = "ok" => UNCHANGED <<Conn, Database>>]_vars

\* Connect succeeded at its third attempt, after a failed open and a failed
\* ping: Conn is the connection of the third attempt.
C37_Witness ==
    /\ cpc = "ok"
    /\ failures = <<"open", "ping">>
    /\ Conn = 3
    /\ Database = "db"

\* Connect gave up after ten failed pings, and Close was called after it:
\* Conn and Database are as they were.
C37_WitnessExhausted ==
    /\ cpc = "exhausted"
    /\ \A k \in 1..MaxAttempts : failures[k] = "ping"
    /\ closeCalls = 1
    /\ Conn = 0
    /\ Database = ""

\* The calls of one kind among the calls WriteBatch made on the driver.
CallsOf(kind) ==
    SelectSeq(wout.calls, LAMBDA c : c[1] = kind)

\* C38: batch insert is all-or-nothing toward the store.  WriteBatch with an
\* empty batch returns ok without preparing or sending anything; if preparing
\* the batch or appending any event fails it returns an error and never calls
\* Send; Send is called at most once, last, and only after every event of the
\* batch was appended, in batch order.
C38_AllOrNothing ==
    wout # NotCalled =>
        /\ wevents = <<>> => (wout.calls = <<>> /\ wout.ret = "nil")
        /\ wevents # <<>> =>
              /\ wout.calls[1][1] = "PrepareBatch"
              /\ Len(CallsOf("PrepareBatch")) = 1
        /\ wout.ret \in {"failed to prepare batch",
                         "failed to append event to batch"}
              => CallsOf("Send") = <<>>
        /\ wout.ret = "failed to prepare batch" => Len(wout.calls) = 1
        /\ \A i \in 1..Len(CallsOf("Append")) :
              CallsOf("Append")[i][2] = wevents[i]
        /\ Len(CallsOf("Append")) <= Len(wevents)
        /\ CallsOf("Send") # <<>> =>
              /\ Len(CallsOf("Send")) = 1
              /\ wout.calls[Len(wout.calls)][1] = "Send"
              /\ Len(CallsOf("Append")) = Len(wevents)
              /\ wout.ret \in {"nil", "failed to send batch"}
        /\ wout.ret = "nil" /\ wevents # <<>> => CallsOf("Send") # <<>>

\* The second Append of a batch of three failed: PrepareBatch and two Appends
\* were called, Send was not, and an error is returned.
C38_Witness ==
    /\ wevents = <<3, 1, 2>>
    /\ wout.ret = "failed to append event to batch"
    /\ Len(wout.calls) = 3
    /\ wout.calls[2] = <<"Append", 3>>
    /\ wout.calls[3] = <<"Append", 1>>

\* An empty batch, a failed PrepareBatch, and a batch sent.
C38_WitnessEmpty ==
    /\ wevents = <<>>
    /\ wout = [calls |-> <<>>, ret |-> "nil"]

C38_WitnessPrepare ==
    /\ wevents = <<1, 2>>
    /\ wout.ret = "failed to prepare batch"
    /\ Len(wout.calls) = 1

C38_WitnessSent ==
    /\ wevents = <<2, 1>>
    /\ wout.ret = "nil"
    /\ wout.calls[2] = <<"Append", 2>>
    /\ wout.calls[3] = <<"Append", 1>>
    /\ wout.calls[4] = <<"Send">>

====
